---- MODULE Spec2Model ----
(***************************************************************************)
(* Model of src/transcript_processor.py: the rule-based extraction of      *)
(* participants, action items and decisions from a meeting transcript.     *)
(*                                                                         *)
(* Text is modelled as TLA+ strings, read character by character with      *)
(* SubSeq.  The regular expressions of the source are written as lists of  *)
(* pattern elements and run by a backtracking matcher with the semantics   *)
(* of Python's re module (leftmost match, greedy repetition, ordered       *)
(* alternation), so that what a pattern captures is computed, not assumed. *)
(***************************************************************************)
EXTENDS Integers, Sequences, FiniteSets, TLC

VARIABLES
    text,             \* the transcript process_transcript reads
    lines,            \* text.splitlines()
    pc,               \* the statement process_transcript is at
    idx,              \* position of the running extractor's loop over lines
    meeting_date,     \* result of extract_meeting_date
    participants_set, \* the set extract_participants accumulates
    participants,     \* the list extract_participants returned
    current_speaker,  \* of extract_action_items
    action_items,     \* items of extract_action_items
    item_line,        \* history: the line each action item was appended on
    key_decisions,    \* decisions of extract_decisions
    decision_line,    \* history: the line each decision was appended on
    summary,          \* result of build_summary
    raw_date,         \* the argument of a call of _normalize_date on its own
    normalized,       \* what that call returned
    renormalized,     \* what _normalize_date returned for that result
    args,             \* channel_valuation: the parsed arguments of main
    valuation,        \* channel_valuation: the local variables of main
    argv,             \* transcript_processor.main: the command-line arguments
    exit_status,      \* transcript_processor.main: the exit status of the process
    stdout,           \* transcript_processor.main: what was printed
    invocations       \* calls of process_transcript that run side by side

\* the variables of a call of _normalize_date on its own
date_vars == <<raw_date, normalized, renormalized>>

\* the variables of channel_valuation.main
valuation_vars == <<args, valuation>>

\* the variables of the process transcript_processor.main runs in
main_vars == <<argv, exit_status, stdout>>

\* what a call of process_transcript on its own leaves alone
outer_vars == <<date_vars, valuation_vars, main_vars, invocations>>

\* the variables of process_transcript
pipeline_vars == <<text, lines, idx, meeting_date, participants_set, participants,
                   current_speaker, action_items, item_line, key_decisions, decision_line,
                   summary>>

vars == <<text, lines, pc, idx, meeting_date, participants_set, participants,
          current_speaker, action_items, item_line, key_decisions, decision_line,
          summary, raw_date, normalized, renormalized, args, valuation, argv,
          exit_status, stdout, invocations>>

----------------------------------------------------------------------------
(* Characters and strings                                                  *)

At(s, i) == SubSeq(s, i, i)

\* The typographic apostrophe U+2019 of the source's patterns, written here
\* as a tilde: like U+2019 it is no word character, no whitespace and
\* none of the characters the source strips or splits on.
RQuote == "~"

UpperSeq == "ABCDEFGHIJKLMNOPQRSTUVWXYZ"
LowerSeq == "abcdefghijklmnopqrstuvwxyz"
DigitSeq == "0123456789"

Chars(s) == {At(s, k) : k \in 1..Len(s)}

UpperCh == Chars(UpperSeq)
LowerCh == Chars(LowerSeq)
DigitCh == Chars(DigitSeq)

\* str.lower() / str.upper() on one ASCII character
ToLowerFn == [c \in UpperCh |-> At(LowerSeq, CHOOSE k \in 1..26 : At(UpperSeq, k) = c)]
ToUpperFn == [c \in LowerCh |-> At(UpperSeq, CHOOSE k \in 1..26 : At(LowerSeq, k) = c)]
ToLower(c) == IF c \in UpperCh THEN ToLowerFn[c] ELSE c
ToUpper(c) == IF c \in LowerCh THEN ToUpperFn[c] ELSE c

RECURSIVE LowerStr(_)
LowerStr(s) == IF s = "" THEN "" ELSE ToLower(At(s, 1)) \o LowerStr(Tail(s))

\* Character classes of the source's regular expressions: a class is a set
\* of characters, or the complement of one.
Cls(set) == [neg |-> FALSE, set |-> set]
NotCls(set) == [neg |-> TRUE, set |-> set]

WordCh == UpperCh \cup LowerCh \cup DigitCh \cup {"_"}
SpaceCh == {" ", "\t", "\n", "\r", "\f"}

ClsW == Cls(WordCh)                          \* \w
ClsS == Cls(SpaceCh)                         \* \s
ClsD == Cls(DigitCh)                         \* \d
ClsAny == NotCls({"\n"})                     \* .
\* ClsTask with the period let in
ClsTask_with_period == NotCls({"\n"})
ClsTask == NotCls({".", "\n"})               \* [^\.\n]
ClsAlpha == Cls(UpperCh \cup LowerCh)        \* [A-Za-z]
ClsUpper == Cls(UpperCh)                     \* [A-Z]
ClsName == Cls(WordCh \cup {" ", ".", "'", "-"})   \* [\w .'-]

InCls(cls, ci, c) ==
    LET in == IF ci THEN \/ c \in cls.set
                         \/ ToLower(c) \in cls.set
                         \/ ToUpper(c) \in cls.set
              ELSE c \in cls.set
    IN  IF cls.neg THEN ~in ELSE in

----------------------------------------------------------------------------
(* Pattern elements                                                        *)

Lit(v) == [t |-> "lit", v |-> v]                 \* literal text
Rep(cls, lo, hi) == [t |-> "rep", cls |-> cls, lo |-> lo, hi |-> hi]
                                                 \* cls{lo,hi}, greedy; hi = -1: no maximum
Plus(cls) == Rep(cls, 1, -1)                     \* cls+
Star(cls) == Rep(cls, 0, -1)                     \* cls*
One(cls) == Rep(cls, 1, 1)                       \* cls
Opt(p) == [t |-> "opt", p |-> p]                 \* (?:p)?
Alt(ps) == [t |-> "alt", ps |-> ps]              \* (?:p1|p2|...)
WB == [t |-> "b"]                                \* \b
BOL == [t |-> "bol"]                             \* ^
EOL == [t |-> "eol"]                             \* $
Open(n) == [t |-> "open", n |-> n]               \* ( of group n
Close(n) == [t |-> "close", n |-> n]             \* ) of group n

NoMatch == [ok |-> FALSE]
NoGroups == <<<<0, 0>>, <<0, 0>>, <<0, 0>>>>

IsWordAt(s, i) == i >= 1 /\ i <= Len(s) /\ At(s, i) \in WordCh

\* \b before the character at position i
Boundary(s, i) == IsWordAt(s, i - 1) # IsWordAt(s, i)

LitAt(v, ci, s, i) ==
    /\ i + Len(v) - 1 <= Len(s)
    /\ IF ci THEN \A k \in 1..Len(v) : ToLower(At(s, i + k - 1)) = ToLower(At(v, k))
             ELSE SubSeq(s, i, i + Len(v) - 1) = v

\* number of consecutive characters of cls from position i, at most hi
RECURSIVE RunLen(_, _, _, _, _)
RunLen(cls, ci, s, i, hi) ==
    IF hi = 0 \/ i > Len(s) \/ ~InCls(cls, ci, At(s, i)) THEN 0
    ELSE 1 + RunLen(cls, ci, s, i + 1, IF hi < 0 THEN hi ELSE hi - 1)

\* MatchAt(p, ci, s, i, g): the match of pattern p at position i of s (ci:
\* re.IGNORECASE), g the groups captured so far as <<first, past-last>>.
RECURSIVE MatchAt(_, _, _, _, _), TryRep(_, _, _, _, _, _, _), TryAlt(_, _, _, _, _, _, _)
MatchAt(p, ci, s, i, g) ==
    IF p = <<>> THEN [ok |-> TRUE, end |-> i, g |-> g]
    ELSE LET e == Head(p)
             rest == Tail(p)
         IN CASE e.t = "lit" ->
                   IF LitAt(e.v, ci, s, i) THEN MatchAt(rest, ci, s, i + Len(e.v), g)
                   ELSE NoMatch
              [] e.t = "b" -> IF Boundary(s, i) THEN MatchAt(rest, ci, s, i, g) ELSE NoMatch
              [] e.t = "bol" -> IF i = 1 THEN MatchAt(rest, ci, s, i, g) ELSE NoMatch
              [] e.t = "eol" -> IF i = Len(s) + 1 THEN MatchAt(rest, ci, s, i, g) ELSE NoMatch
              [] e.t = "rep" -> TryRep(rest, ci, s, i, g, RunLen(e.cls, ci, s, i, e.hi), e.lo)
              [] e.t = "opt" ->
                   LET r == MatchAt(e.p \o rest, ci, s, i, g)
                   IN  IF r.ok THEN r ELSE MatchAt(rest, ci, s, i, g)
              [] e.t = "alt" -> TryAlt(e.ps, 1, rest, ci, s, i, g)
              [] e.t = "open" -> MatchAt(rest, ci, s, i, [g EXCEPT ![e.n] = <<i, i>>])
              [] e.t = "close" -> MatchAt(rest, ci, s, i, [g EXCEPT ![e.n][2] = i])

\* greedy repetition: the longest run first, giving characters back one by one
TryRep(rest, ci, s, i, g, n, lo) ==
    IF n < lo THEN NoMatch
    ELSE LET r == MatchAt(rest, ci, s, i + n, g)
         IN  IF r.ok THEN r ELSE TryRep(rest, ci, s, i, g, n - 1, lo)

\* ordered alternation: the first alternative that lets the rest match
TryAlt(ps, k, rest, ci, s, i, g) ==
    IF k > Len(ps) THEN NoMatch
    ELSE LET r == MatchAt(ps[k] \o rest, ci, s, i, g)
         IN  IF r.ok THEN r ELSE TryAlt(ps, k + 1, rest, ci, s, i, g)

\* re.search from position from on: the leftmost match
SearchFrom(p, ci, s, from) ==
    LET hits == {i \in from..(Len(s) + 1) : MatchAt(p, ci, s, i, NoGroups).ok}
    IN  IF hits = {} THEN NoMatch
        ELSE LET i == CHOOSE x \in hits : \A y \in hits : x <= y
                 r == MatchAt(p, ci, s, i, NoGroups)
             IN  [ok |-> TRUE, start |-> i, end |-> r.end, g |-> r.g]

Search(p, ci, s) == SearchFrom(p, ci, s, 1)       \* re.search(p, s)
Match(p, ci, s) == MatchAt(p, ci, s, 1, NoGroups) \* re.match(p, s)

\* m.group(n)
Group(s, r, n) == SubSeq(s, r.g[n][1], r.g[n][2] - 1)

----------------------------------------------------------------------------
(* String helpers of the Python runtime                                    *)

\* str.strip(): leading and trailing whitespace removed
RECURSIVE LStrip(_), RStrip(_)
LStrip(s) == IF s # "" /\ At(s, 1) \in SpaceCh THEN LStrip(Tail(s)) ELSE s
RStrip(s) == IF s # "" /\ At(s, Len(s)) \in SpaceCh THEN RStrip(SubSeq(s, 1, Len(s) - 1)) ELSE s
Strip(s) == RStrip(LStrip(s))

\* str.rstrip(chars)
RECURSIVE RStripChars(_, _)
RStripChars(s, chars) ==
    IF s # "" /\ At(s, Len(s)) \in chars THEN RStripChars(SubSeq(s, 1, Len(s) - 1), chars) ELSE s

\* re.sub(r"\s+", " ", s)
RECURSIVE CollapseSpace(_)
CollapseSpace(s) ==
    IF s = "" THEN ""
    ELSE IF At(s, 1) \in SpaceCh THEN " " \o CollapseSpace(LStrip(s))
    ELSE At(s, 1) \o CollapseSpace(Tail(s))

\* Code-point order of the characters the model uses (RQuote last, as U+2019)
AsciiSeq == "\t\n\f\r !',-./0123456789:;ABCDEFGHIJKLMNOPQRSTUVWXYZ_abcdefghijklmnopqrstuvwxyz~"
Rank(c) == CHOOSE k \in 1..Len(AsciiSeq) : At(AsciiSeq, k) = c

\* a < b for Python strings
RECURSIVE StrLess(_, _)
StrLess(a, b) ==
    IF b = "" THEN FALSE
    ELSE IF a = "" THEN TRUE
    ELSE IF At(a, 1) = At(b, 1) THEN StrLess(Tail(a), Tail(b))
    ELSE Rank(At(a, 1)) < Rank(At(b, 1))

\* sorted(S) with the order reversed
RECURSIVE sorted_descending(_)
sorted_descending(S) ==
    IF S = {} THEN <<>>
    ELSE LET m == CHOOSE x \in S : \A y \in S \ {x} : StrLess(y, x)
         IN  <<m>> \o sorted_descending(S \ {m})

\* sorted(S) for a set of strings
RECURSIVE Sorted(_)
Sorted(S) ==
    IF S = {} THEN <<>>
    ELSE LET m == CHOOSE x \in S : \A y \in S \ {x} : StrLess(x, y)
         IN  <<m>> \o Sorted(S \ {m})

\* "\n".join(ls)
RECURSIVE JoinLines(_)
JoinLines(ls) ==
    IF ls = <<>> THEN ""
    ELSE IF Len(ls) = 1 THEN ls[1]
    ELSE ls[1] \o "\n" \o JoinLines(Tail(ls))

\* str.splitlines(): split at \n, \r, \r\n and \f, no empty last line
LineBreakCh == {"\n", "\r", "\f"}
RECURSIVE SplitLinesFrom(_, _)
SplitLinesFrom(s, from) ==
    IF from > Len(s) THEN <<>>
    ELSE LET breaks == {i \in from..Len(s) : At(s, i) \in LineBreakCh}
         IN  IF breaks = {} THEN <<SubSeq(s, from, Len(s))>>
             ELSE LET i == CHOOSE x \in breaks : \A y \in breaks : x <= y
                      next == IF At(s, i) = "\r" /\ i < Len(s) /\ At(s, i + 1) = "\n"
                              THEN i + 2 ELSE i + 1
                  IN  <<SubSeq(s, from, i - 1)>> \o SplitLinesFrom(s, next)
SplitLines(s) == SplitLinesFrom(s, 1)

\* Optional[str]: None, or a value
None == <<>>
Some(v) == <<v>>

----------------------------------------------------------------------------
(* The pattern tables of the source                                        *)

\* (?:'|’)?
Apos == Opt(<<Alt(<< <<Lit("'")>>, <<Lit(RQuote)>> >>)>>)

\* ([^\.\n]+)
Capture == <<Open(1), Plus(ClsTask), Close(1)>>

SPEAKER_RE ==
    <<BOL, Star(ClsS), Open(1), One(ClsUpper), Rep(ClsName, 1, 50), Close(1),
      Star(ClsS), Lit(":"), Star(ClsS), Open(2), Plus(ClsAny), Close(2), EOL>>

ACTION_PATTERNS ==
    << <<WB, Lit("I"), Apos, Lit("ll"), Plus(ClsS)>> \o Capture,
       <<WB, Lit("I"), Apos, Lit("m"), Plus(ClsS), Lit("going"), Plus(ClsS), Lit("to"), Plus(ClsS)>> \o Capture,
       <<WB, Lit("I"), Plus(ClsS), Lit("will"), Plus(ClsS)>> \o Capture,
       <<WB, Lit("You"), Plus(ClsS), Lit("should"), Plus(ClsS)>> \o Capture,
       <<WB, Lit("We"), Plus(ClsS), Lit("should"), Plus(ClsS)>> \o Capture,
       <<WB, Lit("Let"), Apos, Lit("s"), Plus(ClsS)>> \o Capture,
       <<WB, Lit("Action"), Star(ClsS), Lit(":"), Star(ClsS)>> \o Capture >>

DECISION_PATTERNS ==
    << <<WB, Lit("We"), Plus(ClsS), Lit("decided"), Plus(ClsS), Opt(<<Lit("to"), Plus(ClsS)>>)>> \o Capture,
       <<WB, Lit("Decision"), Star(ClsS), Lit(":"), Star(ClsS)>> \o Capture,
       <<WB, Lit("Agreed"), Plus(ClsS), Lit("to"), Plus(ClsS)>> \o Capture,
       <<WB, Lit("We"), Plus(ClsS), Lit("agree"), Plus(ClsS), Lit("to"), Plus(ClsS)>> \o Capture >>

DATE_PATTERNS ==
    << <<WB, Open(1), Rep(ClsD, 4, 4), Lit("-"), Rep(ClsD, 2, 2), Lit("-"), Rep(ClsD, 2, 2),
         Close(1), WB>>,
       <<WB, Open(1), Rep(ClsD, 1, 2), Lit("/"), Rep(ClsD, 1, 2), Lit("/"), Rep(ClsD, 2, 4),
         Close(1), WB>>,
       <<WB, Open(1), Plus(ClsW), Plus(ClsS), Rep(ClsD, 1, 2), Lit(","), Plus(ClsS),
         Rep(ClsD, 4, 4), Close(1), WB>> >>

\* DUE_DATE_RE letting a weekday and a comma stand before the date
DUE_DATE_RE_weekday ==
    <<WB, Alt(<< <<Lit("by")>>, <<Lit("before")>>, <<Lit("due")>>, <<Lit("on")>> >>),
      Plus(ClsS), Open(1), Opt(<<Plus(ClsAlpha), Lit(","), Plus(ClsS)>>),
      Alt(<< <<Plus(ClsAlpha), Plus(ClsS), Rep(ClsD, 1, 2),
               Opt(<<Lit(","), Star(ClsS), Rep(ClsD, 4, 4)>>)>>,
             <<Rep(ClsD, 1, 2), Lit("/"), Rep(ClsD, 1, 2), Lit("/"), Rep(ClsD, 2, 4)>>,
             <<Rep(ClsD, 4, 4), Lit("-"), Rep(ClsD, 2, 2), Lit("-"), Rep(ClsD, 2, 2)>> >>),
      Close(1), WB>>

\* group 2 of the source is group 1 here: group 1 of the source, the
\* preposition, is never read
DUE_DATE_RE ==
    <<WB, Alt(<< <<Lit("by")>>, <<Lit("before")>>, <<Lit("due")>>, <<Lit("on")>> >>),
      Plus(ClsS), Open(1),
      Alt(<< <<Plus(ClsAlpha), Plus(ClsS), Rep(ClsD, 1, 2),
               Opt(<<Lit(","), Star(ClsS), Rep(ClsD, 4, 4)>>)>>,
             <<Rep(ClsD, 1, 2), Lit("/"), Rep(ClsD, 1, 2), Lit("/"), Rep(ClsD, 2, 4)>>,
             <<Rep(ClsD, 4, 4), Lit("-"), Rep(ClsD, 2, 2), Lit("-"), Rep(ClsD, 2, 2)>> >>),
      Close(1), WB>>

PARTICIPANTS_RE ==
    <<WB, Lit("Participant"), Opt(<<Lit("s")>>), Star(ClsS), Lit(":"), Star(ClsS),
      Open(1), Plus(ClsAny), Close(1)>>

\* r",|;|\band\b" of extract_participants
NAME_SPLIT_RE == <<Alt(<< <<Lit(",")>>, <<Lit(";")>>, <<WB, Lit("and"), WB>> >>)>>

\* r"\bI\b|I(?:'|’)?ll|I\s+will|I(?:'|’)?m\s+going" of extract_action_items
FIRST_PERSON_RE ==
    <<Alt(<< <<WB, Lit("I"), WB>>,
             <<Lit("I"), Apos, Lit("ll")>>,
             <<Lit("I"), Plus(ClsS), Lit("will")>>,
             <<Lit("I"), Apos, Lit("m"), Plus(ClsS), Lit("going")>> >>)>>

\* r"\bYou\s+should\b" of extract_action_items
YOU_SHOULD_RE == <<WB, Lit("You"), Plus(ClsS), Lit("should"), WB>>

----------------------------------------------------------------------------
(* datetime.strptime / strftime, as _normalize_date uses them              *)

DigitVal(c) == (CHOOSE k \in 1..10 : At(DigitSeq, k) = c) - 1

\* int(s) for a string of digits
RECURSIVE ToInt(_)
ToInt(s) == IF s = "" THEN 0 ELSE 10 * ToInt(SubSeq(s, 1, Len(s) - 1)) + DigitVal(At(s, Len(s)))

\* str(n) for n >= 0
RECURSIVE ToStr(_)
ToStr(n) == IF n < 10 THEN At(DigitSeq, n + 1) ELSE ToStr(n \div 10) \o At(DigitSeq, (n % 10) + 1)

Pad2(n) == IF n < 10 THEN "0" \o ToStr(n) ELSE ToStr(n)

Cls19 == Cls(DigitCh \ {"0"})

\* The regular expressions _strptime compiles the directives to (groups:
\* 1 the year, 2 the month, 3 the day)
DirY == <<Open(1), Rep(ClsD, 4, 4), Close(1)>>                          \* %Y
Diry == <<Open(1), Rep(ClsD, 2, 2), Close(1)>>                          \* %y
Dirm == <<Open(2), Alt(<< <<Lit("1"), One(Cls({"0", "1", "2"}))>>,
                          <<Lit("0"), One(Cls19)>>,
                          <<One(Cls19)>> >>), Close(2)>>                \* %m
Dird == <<Open(3), Alt(<< <<Lit("3"), One(Cls({"0", "1"}))>>,
                          <<One(Cls({"1", "2"})), One(ClsD)>>,
                          <<Lit("0"), One(Cls19)>>,
                          <<One(Cls19)>>,
                          <<Lit(" "), One(Cls19)>> >>), Close(3)>>      \* %d

MonthNames == <<"january", "february", "march", "april", "may", "june", "july",
                "august", "september", "october", "november", "december">>
MonthAbbrs == <<"jan", "feb", "mar", "apr", "may", "jun", "jul", "aug", "sep",
                "oct", "nov", "dec">>

\* _strptime tries the longer names first
MonthNameOrder == <<9, 2, 11, 12, 1, 10, 8, 3, 4, 6, 7, 5>>

DirB == <<Open(2), Alt([k \in 1..12 |-> <<Lit(MonthNames[MonthNameOrder[k]])>>]), Close(2)>>  \* %B
Dirb == <<Open(2), Alt([k \in 1..12 |-> <<Lit(MonthAbbrs[k])>>]), Close(2)>>                  \* %b

\* the five formats of _normalize_date; whitespace in a format is \s+
DATE_FORMATS ==
    << [y4 |-> TRUE,  name |-> 0, re |-> DirY \o <<Lit("-")>> \o Dirm \o <<Lit("-")>> \o Dird],
       [y4 |-> TRUE,  name |-> 0, re |-> Dirm \o <<Lit("/")>> \o Dird \o <<Lit("/")>> \o DirY],
       [y4 |-> FALSE, name |-> 0, re |-> Dirm \o <<Lit("/")>> \o Dird \o <<Lit("/")>> \o Diry],
       [y4 |-> TRUE,  name |-> 1, re |-> DirB \o <<Plus(ClsS)>> \o Dird \o <<Lit(","), Plus(ClsS)>> \o DirY],
       [y4 |-> TRUE,  name |-> 2, re |-> Dirb \o <<Plus(ClsS)>> \o Dird \o <<Lit(","), Plus(ClsS)>> \o DirY] >>

IsLeap(y) == (y % 4 = 0) /\ ((y % 100 # 0) \/ (y % 400 = 0))
DaysIn(y, m) ==
    IF m = 2 THEN (IF IsLeap(y) THEN 29 ELSE 28)
    ELSE IF m \in {4, 6, 9, 11} THEN 30 ELSE 31

MonthOf(fmt, txt) ==
    IF fmt.name = 0 THEN ToInt(txt)
    ELSE LET tab == IF fmt.name = 1 THEN MonthNames ELSE MonthAbbrs
         IN  CHOOSE k \in 1..12 : tab[k] = LowerStr(txt)

\* datetime.strptime(raw, fmt): the date, or ok = FALSE for ValueError
Strptime(raw, fmt) ==
    LET r == Match(fmt.re, TRUE, raw)
    IN  IF ~r.ok \/ r.end # Len(raw) + 1 THEN [ok |-> FALSE]
        ELSE LET yy == ToInt(Group(raw, r, 1))
                 y == IF fmt.y4 THEN yy ELSE IF yy <= 68 THEN 2000 + yy ELSE 1900 + yy
                 m == MonthOf(fmt, Group(raw, r, 2))
                 d == ToInt(Strip(Group(raw, r, 3)))
             IN  IF y < 1 \/ d > DaysIn(y, m) THEN [ok |-> FALSE]
                 ELSE [ok |-> TRUE, y |-> y, m |-> m, d |-> d]

\* strftime("%Y-%m-%d"); the C library's %Y does not pad the year
Strftime(dt) == ToStr(dt.y) \o "-" \o Pad2(dt.m) \o "-" \o Pad2(dt.d)

\* NormalizeFrom returning the empty string when no format parses
RECURSIVE NormalizeFromOrEmpty(_, _)
NormalizeFromOrEmpty(raw, k) ==
    IF k > Len(DATE_FORMATS) THEN ""
    ELSE LET dt == Strptime(raw, DATE_FORMATS[k])
         IN  IF dt.ok THEN Strftime(dt) ELSE NormalizeFromOrEmpty(raw, k + 1)

\* the loop of _normalize_date over the formats, from format k on
RECURSIVE NormalizeFrom(_, _)
NormalizeFrom(raw, k) ==
    IF k > Len(DATE_FORMATS) THEN raw
    ELSE LET dt == Strptime(raw, DATE_FORMATS[k])
         IN  IF dt.ok THEN Strftime(dt) ELSE NormalizeFrom(raw, k + 1)

normalize_date(raw) == NormalizeFrom(Strip(raw), 1)

----------------------------------------------------------------------------
(* The per-line functions of the extractors                                *)

\* extract_meeting_date taking the match that begins first in the text, of
\* whatever pattern
meeting_date_leftmost(txt, k) ==
    LET hits == {n \in k..Len(DATE_PATTERNS) : Search(DATE_PATTERNS[n], FALSE, txt).ok}
        at(n) == Search(DATE_PATTERNS[n], FALSE, txt).start
    IN  IF hits = {} THEN None
        ELSE LET n == CHOOSE n \in hits :
                         \A o \in hits : at(n) < at(o) \/ (at(n) = at(o) /\ n <= o)
             IN  Some(normalize_date(Group(txt, Search(DATE_PATTERNS[n], FALSE, txt), 1)))

\* extract_meeting_date from pattern k on
RECURSIVE meeting_date_from(_, _)
meeting_date_from(txt, k) ==
    IF k > Len(DATE_PATTERNS) THEN None
    ELSE LET m == Search(DATE_PATTERNS[k], FALSE, txt)
         IN  IF m.ok THEN Some(normalize_date(Group(txt, m, 1)))
             ELSE meeting_date_from(txt, k + 1)

extract_meeting_date(txt) == meeting_date_from(txt, 1)

find_due_date(txt) ==
    LET m == Search(DUE_DATE_RE, TRUE, txt)
    IN  IF ~m.ok THEN None ELSE Some(normalize_date(Group(txt, m, 1)))

clean_task(txt) == RStripChars(Strip(CollapseSpace(txt)), {";", ",", ".", " "})

\* re.split(NAME_SPLIT_RE, s) from position i on
RECURSIVE SplitFrom(_, _)
SplitFrom(s, i) ==
    LET m == SearchFrom(NAME_SPLIT_RE, FALSE, s, i)
    IN  IF ~m.ok THEN <<SubSeq(s, i, Len(s))>>
        ELSE <<SubSeq(s, i, m.start - 1)>> \o SplitFrom(s, m.end)

\* line_participants reading only the roster lines
line_participants_roster_only(line) ==
    LET pm == Search(PARTICIPANTS_RE, TRUE, line)
    IN  IF pm.ok
        THEN LET names == SplitFrom(Group(line, pm, 1), 1)
             IN  {Strip(names[k]) : k \in 1..Len(names)} \ {""}
        ELSE {}

\* the names one line adds to participants (body of extract_participants' loop)
line_participants(line) ==
    LET speaker == Match(SPEAKER_RE, FALSE, line)
        pm == Search(PARTICIPANTS_RE, TRUE, line)
    IN  IF speaker.ok THEN {Strip(Group(line, speaker, 1))}
        ELSE IF pm.ok
             THEN LET names == SplitFrom(Group(line, pm, 1), 1)
                  IN  {Strip(names[k]) : k \in 1..Len(names)} \ {""}
             ELSE {}

\* speaker_of with the update of current_speaker forgotten
speaker_of_stale(line, cur) == cur

\* speaker_of with the speaker context dropped on an unlabelled line
speaker_of_no_carry(line, cur) ==
    LET speaker == Match(SPEAKER_RE, FALSE, line)
    IN  IF speaker.ok THEN Some(Strip(Group(line, speaker, 1))) ELSE None

\* speaker-aware view of a line: the speaker context after it, and its content
speaker_of(line, cur) ==
    LET speaker == Match(SPEAKER_RE, FALSE, line)
    IN  IF speaker.ok THEN Some(Strip(Group(line, speaker, 1))) ELSE cur

content_of(line) ==
    LET speaker == Match(SPEAKER_RE, FALSE, line)
    IN  IF speaker.ok THEN Strip(Group(line, speaker, 2)) ELSE line

infer_assignee(content, cur) ==
    IF Search(FIRST_PERSON_RE, TRUE, content).ok THEN cur
    ELSE IF Search(YOU_SHOULD_RE, TRUE, content).ok THEN None
    ELSE None

\* line_actions without the break: every matching pattern appends an item
RECURSIVE line_actions_no_break(_, _, _)
line_actions_no_break(content, cur, k) ==
    IF k > Len(ACTION_PATTERNS) THEN <<>>
    ELSE LET m == Search(ACTION_PATTERNS[k], TRUE, content)
             task_text == clean_task(Group(content, m, 1))
         IN  IF ~m.ok THEN line_actions_no_break(content, cur, k + 1)
             ELSE IF task_text = "" THEN line_actions_no_break(content, cur, k + 1)
             ELSE << [assignee |-> infer_assignee(content, cur),
                      task |-> task_text,
                      due_date |-> find_due_date(content)] >>
                  \o line_actions_no_break(content, cur, k + 1)

\* line_actions without the test for an empty task
RECURSIVE line_actions_keep_empty(_, _, _)
line_actions_keep_empty(content, cur, k) ==
    IF k > Len(ACTION_PATTERNS) THEN <<>>
    ELSE LET m == Search(ACTION_PATTERNS[k], TRUE, content)
             task_text == clean_task(Group(content, m, 1))
         IN  IF ~m.ok THEN line_actions_keep_empty(content, cur, k + 1)
             ELSE << [assignee |-> infer_assignee(content, cur),
                      task |-> task_text,
                      due_date |-> find_due_date(content)] >>

\* line_actions looking for the due date in the captured task only
RECURSIVE line_actions_due_in_task(_, _, _)
line_actions_due_in_task(content, cur, k) ==
    IF k > Len(ACTION_PATTERNS) THEN <<>>
    ELSE LET m == Search(ACTION_PATTERNS[k], TRUE, content)
             task_text == clean_task(Group(content, m, 1))
         IN  IF ~m.ok THEN line_actions_due_in_task(content, cur, k + 1)
             ELSE IF task_text = "" THEN line_actions_due_in_task(content, cur, k + 1)
             ELSE << [assignee |-> infer_assignee(content, cur),
                      task |-> task_text,
                      due_date |-> find_due_date(task_text)] >>

\* the pattern loop of extract_action_items from pattern k on: the items the
\* line appends (none or one)
RECURSIVE line_actions(_, _, _)
line_actions(content, cur, k) ==
    IF k > Len(ACTION_PATTERNS) THEN <<>>
    ELSE LET m == Search(ACTION_PATTERNS[k], TRUE, content)
             task_text == clean_task(Group(content, m, 1))
         IN  IF ~m.ok THEN line_actions(content, cur, k + 1)
             ELSE IF task_text = "" THEN line_actions(content, cur, k + 1)
             ELSE << [assignee |-> infer_assignee(content, cur),
                      task |-> task_text,
                      due_date |-> find_due_date(content)] >>

\* line_decisions without the break: every matching pattern appends its capture
RECURSIVE line_decisions_no_break(_, _)
line_decisions_no_break(content, k) ==
    IF k > Len(DECISION_PATTERNS) THEN <<>>
    ELSE LET m == Search(DECISION_PATTERNS[k], TRUE, content)
             decision == clean_task(Group(content, m, 1))
         IN  IF ~m.ok THEN line_decisions_no_break(content, k + 1)
             ELSE (IF decision # "" THEN <<decision>> ELSE <<>>)
                  \o line_decisions_no_break(content, k + 1)

\* line_decisions going on to the next pattern when a capture cleans to nothing
RECURSIVE line_decisions_skip_empty(_, _)
line_decisions_skip_empty(content, k) ==
    IF k > Len(DECISION_PATTERNS) THEN <<>>
    ELSE LET m == Search(DECISION_PATTERNS[k], TRUE, content)
             decision == clean_task(Group(content, m, 1))
         IN  IF ~m.ok THEN line_decisions_skip_empty(content, k + 1)
             ELSE IF decision # "" THEN <<decision>>
             ELSE line_decisions_skip_empty(content, k + 1)

\* the pattern loop of extract_decisions from pattern k on
RECURSIVE line_decisions(_, _)
line_decisions(content, k) ==
    IF k > Len(DECISION_PATTERNS) THEN <<>>
    ELSE LET m == Search(DECISION_PATTERNS[k], TRUE, content)
             decision == clean_task(Group(content, m, 1))
         IN  IF ~m.ok THEN line_decisions(content, k + 1)
             ELSE IF decision # "" THEN <<decision>> ELSE <<>>

FALLBACK_SUMMARY ==
    "No explicit action items or decisions were detected in the transcript. "
    \o "The meeting appears to be informational or exploratory. "
    \o "Review the transcript for any implied follow-ups."

FOLLOW_UP_NOTE == " Additional follow-ups may be noted in the transcript."

EndsWith(s, suffix) ==
    Len(s) >= Len(suffix) /\ SubSeq(s, Len(s) - Len(suffix) + 1, Len(s)) = suffix

\* ". ".join(parts)
RECURSIVE JoinParts(_)
JoinParts(parts) ==
    IF parts = <<>> THEN ""
    ELSE IF Len(parts) = 1 THEN parts[1]
    ELSE parts[1] \o ". " \o JoinParts(Tail(parts))

\* build_summary with the trailing note after two fragments too
build_summary_always_note(items, decisions) ==
    IF items = <<>> /\ decisions = <<>> THEN FALLBACK_SUMMARY
    ELSE LET first == items[1]
             assignee == IF first.assignee # None /\ first.assignee[1] # ""
                         THEN first.assignee[1] ELSE "the team"
             parts == (IF decisions # <<>>
                       THEN <<"Key decisions were made on " \o ToStr(Len(decisions))
                              \o " topic(s), including: " \o decisions[1]>>
                       ELSE <<>>)
                      \o (IF items # <<>>
                          THEN <<"Action items were assigned, starting with " \o assignee
                                 \o " to " \o first.task>>
                          ELSE <<>>)
             joined == JoinParts(parts)
             ended == IF EndsWith(joined, ".") THEN joined ELSE joined \o "."
         IN  IF Len(parts) >= 1 THEN ended \o FOLLOW_UP_NOTE ELSE ended

\* build_summary citing the last action item and the last decision
build_summary_last(items, decisions) ==
    IF items = <<>> /\ decisions = <<>> THEN FALLBACK_SUMMARY
    ELSE LET first == items[Len(items)]
             assignee == IF first.assignee # None /\ first.assignee[1] # ""
                         THEN first.assignee[1] ELSE "the team"
             parts == (IF decisions # <<>>
                       THEN <<"Key decisions were made on " \o ToStr(Len(decisions))
                              \o " topic(s), including: " \o decisions[Len(decisions)]>>
                       ELSE <<>>)
                      \o (IF items # <<>>
                          THEN <<"Action items were assigned, starting with " \o assignee
                                 \o " to " \o first.task>>
                          ELSE <<>>)
             joined == JoinParts(parts)
             ended == IF EndsWith(joined, ".") THEN joined ELSE joined \o "."
         IN  IF Len(parts) = 1 THEN ended \o FOLLOW_UP_NOTE ELSE ended

\* build_summary without the final period added
build_summary_no_period(items, decisions) ==
    IF items = <<>> /\ decisions = <<>> THEN FALLBACK_SUMMARY
    ELSE LET first == items[1]
             assignee == IF first.assignee # None /\ first.assignee[1] # ""
                         THEN first.assignee[1] ELSE "the team"
             parts == (IF decisions # <<>>
                       THEN <<"Key decisions were made on " \o ToStr(Len(decisions))
                              \o " topic(s), including: " \o decisions[1]>>
                       ELSE <<>>)
                      \o (IF items # <<>>
                          THEN <<"Action items were assigned, starting with " \o assignee
                                 \o " to " \o first.task>>
                          ELSE <<>>)
             joined == JoinParts(parts)
             ended == joined
         IN  IF Len(parts) = 1 THEN ended \o FOLLOW_UP_NOTE ELSE ended

\* build_summary without the early return for two empty lists
build_summary_no_fallback(items, decisions) ==
    IF items = <<>> /\ decisions = <<>> THEN "."
    ELSE LET first == items[1]
             assignee == IF first.assignee # None /\ first.assignee[1] # ""
                         THEN first.assignee[1] ELSE "the team"
             parts == (IF decisions # <<>>
                       THEN <<"Key decisions were made on " \o ToStr(Len(decisions))
                              \o " topic(s), including: " \o decisions[1]>>
                       ELSE <<>>)
                      \o (IF items # <<>>
                          THEN <<"Action items were assigned, starting with " \o assignee
                                 \o " to " \o first.task>>
                          ELSE <<>>)
             joined == JoinParts(parts)
             ended == IF EndsWith(joined, ".") THEN joined ELSE joined \o "."
         IN  IF Len(parts) = 1 THEN ended \o FOLLOW_UP_NOTE ELSE ended

build_summary(items, decisions) ==
    IF items = <<>> /\ decisions = <<>> THEN FALLBACK_SUMMARY
    ELSE LET first == items[1]
             assignee == IF first.assignee # None /\ first.assignee[1] # ""
                         THEN first.assignee[1] ELSE "the team"
             parts == (IF decisions # <<>>
                       THEN <<"Key decisions were made on " \o ToStr(Len(decisions))
                              \o " topic(s), including: " \o decisions[1]>>
                       ELSE <<>>)
                      \o (IF items # <<>>
                          THEN <<"Action items were assigned, starting with " \o assignee
                                 \o " to " \o first.task>>
                          ELSE <<>>)
             joined == JoinParts(parts)
             ended == IF EndsWith(joined, ".") THEN joined ELSE joined \o "."
         IN  IF Len(parts) = 1 THEN ended \o FOLLOW_UP_NOTE ELSE ended

----------------------------------------------------------------------------
(* The transcripts explored                                                *)

MaxLines == 2

LinePool ==
    { "Jane: I'll send the report by Friday, March 14, 2025.",
      "Participants: Alice, Bob and Carol",
      "We decided to ship the update next week.",
      "Action: send it",
      "Decision: ship it",
      "I'll ,. We should go",
      "You should fill it",
      "We should go and I will stay",
      "Bob: Let's go on 3/14/25" }

Transcripts == {JoinLines(ls) : ls \in UNION {[1..n -> LinePool] : n \in 0..MaxLines}}

----------------------------------------------------------------------------
(* process_transcript: the extractors run one after the other, each a loop *)
(* over the lines                                                          *)

\* nothing is computed yet
Unset ==
    /\ lines = <<>>
    /\ idx = 1
    /\ meeting_date = None
    /\ participants_set = {}
    /\ participants = <<>>
    /\ current_speaker = None
    /\ action_items = <<>>
    /\ item_line = <<>>
    /\ key_decisions = <<>>
    /\ decision_line = <<>>
    /\ summary = ""
    /\ normalized = None
    /\ renormalized = None

\* channel_valuation.main is not run
NoValuation == args = None /\ valuation = None

\* transcript_processor.main is not run: process_transcript is called directly
NoCommand == argv = <<>> /\ exit_status = None /\ stdout = None

\* no calls run side by side
NoInvocations == invocations = <<>>

Init ==
    /\ text \in Transcripts
    /\ pc = "read"
    /\ raw_date = ""
    /\ Unset
    /\ NoValuation /\ NoCommand /\ NoInvocations

\* lines = text.splitlines()
SplitText ==
    /\ pc = "read"
    /\ lines' = SplitLines(text)
    /\ pc' = "extract_meeting_date"
    /\ UNCHANGED <<text, idx, meeting_date, participants_set, participants, current_speaker,
                   action_items, item_line, key_decisions, decision_line, summary>>
    /\ UNCHANGED outer_vars

\* meeting_date = extract_meeting_date(text); extract_participants starts
ExtractMeetingDate ==
    /\ pc = "extract_meeting_date"
    /\ meeting_date' = extract_meeting_date(text)
    /\ pc' = "extract_participants"
    /\ idx' = 1
    /\ participants_set' = {}
    /\ UNCHANGED <<text, lines, participants, current_speaker, action_items, item_line,
                   key_decisions, decision_line, summary>>
    /\ UNCHANGED outer_vars

\* one iteration of the loop of extract_participants
ExtractParticipantsLine ==
    /\ pc = "extract_participants"
    /\ idx <= Len(lines)
    /\ participants_set' = participants_set \cup line_participants(lines[idx])
    /\ idx' = idx + 1
    /\ UNCHANGED <<text, lines, pc, meeting_date, participants, current_speaker, action_items,
                   item_line, key_decisions, decision_line, summary>>
    /\ UNCHANGED outer_vars

\* return sorted(participants); extract_action_items starts
ExtractParticipantsReturn ==
    /\ pc = "extract_participants"
    /\ idx > Len(lines)
    /\ participants' = Sorted(participants_set)
    /\ pc' = "extract_action_items"
    /\ idx' = 1
    /\ current_speaker' = None
    /\ action_items' = <<>>
    /\ UNCHANGED <<text, lines, meeting_date, participants_set, item_line, key_decisions,
                   decision_line, summary>>
    /\ UNCHANGED outer_vars

\* one iteration of the loop of extract_action_items
ExtractActionItemsLine ==
    /\ pc = "extract_action_items"
    /\ idx <= Len(lines)
    /\ LET line == lines[idx]
           speaker == speaker_of(line, current_speaker)
           new == line_actions(content_of(line), speaker, 1)
       IN  /\ current_speaker' = speaker
           /\ action_items' = action_items \o new
           /\ item_line' = item_line \o [k \in 1..Len(new) |-> idx]
    /\ idx' = idx + 1
    /\ UNCHANGED <<text, lines, pc, meeting_date, participants_set, participants, key_decisions,
                   decision_line, summary>>
    /\ UNCHANGED outer_vars

\* return items; extract_decisions starts
ExtractActionItemsReturn ==
    /\ pc = "extract_action_items"
    /\ idx > Len(lines)
    /\ pc' = "extract_decisions"
    /\ idx' = 1
    /\ key_decisions' = <<>>
    /\ UNCHANGED <<text, lines, meeting_date, participants_set, participants, current_speaker,
                   action_items, item_line, decision_line, summary>>
    /\ UNCHANGED outer_vars

\* one iteration of the loop of extract_decisions
ExtractDecisionsLine ==
    /\ pc = "extract_decisions"
    /\ idx <= Len(lines)
    /\ LET new == line_decisions(content_of(lines[idx]), 1)
       IN  /\ key_decisions' = key_decisions \o new
           /\ decision_line' = decision_line \o [k \in 1..Len(new) |-> idx]
    /\ idx' = idx + 1
    /\ UNCHANGED <<text, lines, pc, meeting_date, participants_set, participants,
                   current_speaker, action_items, item_line, summary>>
    /\ UNCHANGED outer_vars

\* return decisions; build_summary is next
ExtractDecisionsReturn ==
    /\ pc = "extract_decisions"
    /\ idx > Len(lines)
    /\ pc' = "build_summary"
    /\ UNCHANGED <<text, lines, idx, meeting_date, participants_set, participants,
                   current_speaker, action_items, item_line, key_decisions, decision_line,
                   summary>>
    /\ UNCHANGED outer_vars

\* summary = build_summary(action_items, key_decisions); the result is returned
BuildSummary ==
    /\ pc = "build_summary"
    /\ summary' = build_summary(action_items, key_decisions)
    /\ pc' = "done"
    /\ UNCHANGED <<text, lines, idx, meeting_date, participants_set, participants,
                   current_speaker, action_items, item_line, key_decisions, decision_line>>
    /\ UNCHANGED outer_vars

Next ==
    \/ SplitText
    \/ ExtractMeetingDate
    \/ ExtractParticipantsLine
    \/ ExtractParticipantsReturn
    \/ ExtractActionItemsLine
    \/ ExtractActionItemsReturn
    \/ ExtractDecisionsLine
    \/ ExtractDecisionsReturn
    \/ BuildSummary

Spec == Init /\ [][Next]_vars

----------------------------------------------------------------------------
(* process_transcript on transcripts of meeting minutes: rosters, speakers  *)
(* named more than once, decisions, captures of punctuation only           *)

MinutesPool ==
    { "participants: Bob, Alice",
      "Bob: Agreed to wait. We decided to go",
      "Alice: Let's !",
      "We decided to ,. Agreed to wait",
      "Participants: Alice, Bob and Carol",
      "We decided to ship the update next week.",
      "Bob: I'll call Al; we agree to meet",
      "Agreed to ?",
      "You should rest" }

MinutesTranscripts ==
    {JoinLines(ls) : ls \in UNION {[1..n -> MinutesPool] : n \in 0..MaxLines}}

InitMinutes ==
    /\ text \in MinutesTranscripts
    /\ pc = "read"
    /\ raw_date = ""
    /\ Unset
    /\ NoValuation /\ NoCommand /\ NoInvocations

SpecMinutes == InitMinutes /\ [][Next]_vars

----------------------------------------------------------------------------
(* process_transcript on transcripts that carry dates: of each of the three *)
(* shapes of DATE_PATTERNS, after a due-date preposition, impossible ones   *)

DatedPool ==
    { "Met on 3/14/25",
      "Notes 2025-03-15",
      "March 4, 2025 sync",
      "Review 2025-13-45",
      "I'll pay by March 14",
      "on 3/14/25 we should pay",
      "Bob: I will pay before 2025-02-30",
      "Let's pay due Mar 4, 2025 or on 1/2/99",
      "You should pay" }

DatedTranscripts ==
    {JoinLines(ls) : ls \in UNION {[1..n -> DatedPool] : n \in 0..MaxLines}}

InitDated ==
    /\ text \in DatedTranscripts
    /\ pc = "read"
    /\ raw_date = ""
    /\ Unset
    /\ NoValuation /\ NoCommand /\ NoInvocations

SpecDated == InitDated /\ [][Next]_vars

----------------------------------------------------------------------------
(* process_transcript on transcripts of talk: plain prose, speaker labels   *)
(* of one letter, with a digit, of 51 characters, a sentence after a task   *)

\* a name of 51 characters
LongName == "Bartholomew-Maximilian Alexander von Hohenzollern V"

TalkPool ==
    { "The weather was fine",
      "Nothing else came up, we adjourned",
      "A: hello",
      "Bob2: I'll go",
      LongName \o ": I will go",
      "Cy: I'll go. Bye",
      "Agreed to wait. We left" }

TalkTranscripts ==
    {JoinLines(ls) : ls \in UNION {[1..n -> TalkPool] : n \in 0..MaxLines}}

InitTalk ==
    /\ text \in TalkTranscripts
    /\ pc = "read"
    /\ raw_date = ""
    /\ Unset
    /\ NoValuation /\ NoCommand /\ NoInvocations

SpecTalk == InitTalk /\ [][Next]_vars

----------------------------------------------------------------------------
(* _normalize_date called on its own, and once more on what it returned     *)

Pad4(n) == IF n < 10 THEN "000" \o ToStr(n)
           ELSE IF n < 100 THEN "00" \o ToStr(n)
           ELSE IF n < 1000 THEN "0" \o ToStr(n) ELSE ToStr(n)

Capitalized(s) == ToUpper(At(s, 1)) \o SubSeq(s, 2, Len(s))

\* the calendar dates written out
YearPool == {99, 1969, 2024, 2025}
MonthPool == {2, 3, 12}
DayPool == {4, 14, 29}

CalendarDates ==
    {dt \in [y : YearPool, m : MonthPool, d : DayPool] : dt.d <= DaysIn(dt.y, dt.m)}

\* the two-digit years of %y stand for 1969..2068
HasTwoDigitYear(dt) == dt.y \in 1969..2068

\* the date dt written in format f of the five formats, month and day in two
\* digits when pad, in as few as possible otherwise
WriteDate(f, dt, pad) ==
    LET mm == IF pad THEN Pad2(dt.m) ELSE ToStr(dt.m)
        dd == IF pad THEN Pad2(dt.d) ELSE ToStr(dt.d)
    IN  CASE f = 1 -> Pad4(dt.y) \o "-" \o mm \o "-" \o dd
          [] f = 2 -> mm \o "/" \o dd \o "/" \o Pad4(dt.y)
          [] f = 3 -> mm \o "/" \o dd \o "/" \o Pad2(dt.y % 100)
          [] f = 4 -> Capitalized(MonthNames[dt.m]) \o " " \o dd \o ", " \o Pad4(dt.y)
          [] f = 5 -> Capitalized(MonthAbbrs[dt.m]) \o " " \o dd \o ", " \o Pad4(dt.y)

WrittenDates ==
    {WriteDate(f, dt, pad) : f \in {1, 2, 4, 5}, dt \in CalendarDates, pad \in BOOLEAN}
    \cup {WriteDate(3, dt, pad) : dt \in {c \in CalendarDates : HasTwoDigitYear(c)},
                                  pad \in BOOLEAN}

\* strings that are no date of the five formats
OtherDateInputs ==
    { "2025-13-45", "2/29/2025", "0000-01-01", "March 14", "March 14,2025", "Sept 4, 2025",
      "99-01-02", " 2025-03-04 ", "march 4, 2025", "", "Friday" }

DateInputs == WrittenDates \cup OtherDateInputs

InitNormalize ==
    /\ raw_date \in DateInputs
    /\ pc = "normalize_date"
    /\ text = ""
    /\ Unset
    /\ NoValuation /\ NoCommand /\ NoInvocations

\* _normalize_date(raw_date)
NormalizeDate ==
    /\ pc = "normalize_date"
    /\ normalized' = Some(normalize_date(raw_date))
    /\ pc' = "normalize_again"
    /\ UNCHANGED <<raw_date, renormalized>>
    /\ UNCHANGED pipeline_vars
    /\ UNCHANGED <<valuation_vars, main_vars, invocations>>

\* _normalize_date of the result
NormalizeAgain ==
    /\ pc = "normalize_again"
    /\ renormalized' = Some(normalize_date(normalized[1]))
    /\ pc' = "normalized"
    /\ UNCHANGED <<raw_date, normalized>>
    /\ UNCHANGED pipeline_vars
    /\ UNCHANGED <<valuation_vars, main_vars, invocations>>

NextNormalize ==
    \/ NormalizeDate
    \/ NormalizeAgain

SpecNormalize == InitNormalize /\ [][NextNormalize]_vars

-----------------------------------------------------------------------------
(* channel_valuation.main, and the same statements of app._render_valuation, *)
(* up to the call of valuation_range.  The numbers are floats in the source  *)
(* and integers here: the inputs are whole numbers far below 2^53, every     *)
(* multiple is a whole number, and a quotient is only ever compared with     *)
(* 1.5, 0.5, 100000 and 20000, which the comparisons below do exactly.  Of a *)
(* note the label is kept and the figure in brackets is left out.            *)

base_multiple_range(niche) ==
    IF niche \in {"finance", "education"}
    THEN [low |-> 30, high |-> 48, note |-> "Premium niche"]
    ELSE [low |-> 24, high |-> 36, note |-> "Standard niche"]

\* views_per_sub >= 1.5 and views_per_sub < 0.5, for subscribers > 0
engagement_adjustment(monthly_views, subscribers) ==
    IF subscribers <= 0 THEN [adj |-> -2, note |-> "Very low engagement (no subscribers)"]
    ELSE IF 2 * monthly_views >= 3 * subscribers THEN [adj |-> 2, note |-> "High engagement"]
    ELSE IF 2 * monthly_views < subscribers THEN [adj |-> -2, note |-> "Low engagement"]
    ELSE [adj |-> 0, note |-> "Moderate engagement"]

\* growth_proxy_adjustment with a penalty of ten times the size
growth_proxy_adjustment_steep(subscribers, age_years) ==
    IF age_years <= 0 THEN [adj |-> -20, note |-> "Unreliable age input"]
    ELSE IF subscribers >= 100000 * age_years THEN [adj |-> 2, note |-> "Strong growth proxy"]
    ELSE IF subscribers <= 20000 * age_years THEN [adj |-> -20, note |-> "Slow growth proxy"]
    ELSE [adj |-> 0, note |-> "Steady growth proxy"]

\* subs_per_year >= 100_000 and subs_per_year <= 20_000, for age_years > 0
growth_proxy_adjustment(subscribers, age_years) ==
    IF age_years <= 0 THEN [adj |-> -2, note |-> "Unreliable age input"]
    ELSE IF subscribers >= 100000 * age_years THEN [adj |-> 2, note |-> "Strong growth proxy"]
    ELSE IF subscribers <= 20000 * age_years THEN [adj |-> -2, note |-> "Slow growth proxy"]
    ELSE [adj |-> 0, note |-> "Steady growth proxy"]

Max(a, b) == IF a >= b THEN a ELSE b
Lesser(a, b) == IF a <= b THEN a ELSE b
clamp(value, low, high) == Max(low, Lesser(high, value))

\* low + high is monthly_revenue times the sum of two even multiples
valuation_range(monthly_revenue, low_mult, high_mult) ==
    LET low == monthly_revenue * low_mult
        high == monthly_revenue * high_mult
    IN  [low |-> low, mid |-> (low + high) \div 2, high |-> high]

\* the choices of the niche argument
Niches == {"entertainment", "education", "finance", "tech", "lifestyle"}

RevenuePool == {-1, 0, 1000}
ViewsPool == {0, 1, 3, 20000, 150000}
SubscribersPool == {0, 2, 20000, 50000, 100000}
AgePool == {-1, 0, 1, 2}

ChannelInputs ==
    [monthly_revenue : RevenuePool, monthly_views : ViewsPool,
     subscribers : SubscribersPool, age_years : AgePool, niche : Niches]

InitValuation ==
    /\ args \in ChannelInputs
    /\ valuation = None
    /\ pc = "main"
    /\ text = ""
    /\ raw_date = ""
    /\ Unset
    /\ NoCommand /\ NoInvocations

Negative(a) ==
    a.monthly_revenue < 0 \/ a.monthly_views < 0 \/ a.subscribers < 0 \/ a.age_years < 0

\* what the statements of channel_valuation.main leave alone
valuation_frame == <<pipeline_vars, date_vars, main_vars, invocations, args>>

\* raise SystemExit("All numeric inputs must be non-negative.")
RejectInputs ==
    /\ pc = "main"
    /\ Negative(args)
    /\ pc' = "SystemExit"
    /\ UNCHANGED <<valuation, valuation_frame>>

\* base_low, base_high, base_note = base_multiple_range(args.niche)
BaseMultipleRange ==
    /\ pc = "main"
    /\ ~Negative(args)
    /\ LET base == base_multiple_range(args.niche)
       IN  valuation' = [base_low |-> base.low, base_high |-> base.high,
                         adjustments |-> <<base.note>>, adj_total |-> 0]
    /\ pc' = "engagement_adjustment"
    /\ UNCHANGED valuation_frame

EngagementAdjustment ==
    /\ pc = "engagement_adjustment"
    /\ LET e == engagement_adjustment(args.monthly_views, args.subscribers)
       IN  valuation' = [valuation EXCEPT !.adj_total = @ + e.adj,
                                          !.adjustments = Append(@, e.note)]
    /\ pc' = "growth_proxy_adjustment"
    /\ UNCHANGED valuation_frame

GrowthProxyAdjustment ==
    /\ pc = "growth_proxy_adjustment"
    /\ LET g == growth_proxy_adjustment(args.subscribers, args.age_years)
       IN  valuation' = [valuation EXCEPT !.adj_total = @ + g.adj,
                                          !.adjustments = Append(@, g.note)]
    /\ pc' = "clamp"
    /\ UNCHANGED valuation_frame

\* low_mult, high_mult = clamp(base + adj_total, 12.0, 60.0)
ClampMultiples ==
    /\ pc = "clamp"
    /\ valuation' = [low_mult |-> clamp(valuation.base_low + valuation.adj_total, 12, 60),
                     high_mult |-> clamp(valuation.base_high + valuation.adj_total, 12, 60)]
                    @@ valuation
    /\ pc' = "swap"
    /\ UNCHANGED valuation_frame

\* if low_mult > high_mult: low_mult, high_mult = high_mult, low_mult
SwapMultiples ==
    /\ pc = "swap"
    /\ valuation' = IF valuation.low_mult > valuation.high_mult
                    THEN [valuation EXCEPT !.low_mult = valuation.high_mult,
                                           !.high_mult = valuation.low_mult]
                    ELSE valuation
    /\ pc' = "valuation_range"
    /\ UNCHANGED valuation_frame

ValuationRange ==
    /\ pc = "valuation_range"
    /\ LET v == valuation_range(args.monthly_revenue, valuation.low_mult, valuation.high_mult)
       IN  valuation' = [low_val |-> v.low, mid_val |-> v.mid, high_val |-> v.high]
                        @@ valuation
    /\ pc' = "report"
    /\ UNCHANGED valuation_frame

NextValuation ==
    \/ RejectInputs
    \/ BaseMultipleRange
    \/ EngagementAdjustment
    \/ GrowthProxyAdjustment
    \/ ClampMultiples
    \/ SwapMultiples
    \/ ValuationRange

SpecValuation == InitValuation /\ [][NextValuation]_vars

-----------------------------------------------------------------------------
(* transcript_processor.main: the command line is parsed, process_transcript *)
(* opens and reads the file and runs the extractors, the result is printed   *)

\* the files of the directory the command runs in: a text file with its
\* content, a file that is not UTF-8, a directory; any other path is missing
Files ==
    << [path |-> "empty.txt", kind |-> "text", content |-> ""],
       [path |-> "report.txt", kind |-> "text",
        content |-> "Jane: I'll send the report by Friday, March 14, 2025."],
       [path |-> "roster.txt", kind |-> "text",
        content |-> "Participants: Alice, Bob and Carol\nWe decided to ship the update next week."],
       [path |-> "walk.txt", kind |-> "text",
        content |-> "The weather was fine\nNothing else came up, we adjourned"],
       [path |-> "sync.txt", kind |-> "text",
        content |-> "Bob: Let's go on 3/14/25\nWe should go and I will stay"],
       [path |-> "labels.txt", kind |-> "text",
        content |-> "Action: send it\nDecision: ship it"],
       [path |-> "talk.txt", kind |-> "text",
        content |-> "Cy: I'll go. Bye\nAgreed to wait. We left"],
       [path |-> "dated.txt", kind |-> "text",
        content |-> "Notes 2025-03-15\nBob: I will pay before 2025-02-30"],
       [path |-> "raw.bin", kind |-> "undecodable"],
       [path |-> "minutes", kind |-> "directory"] >>

Paths == {Files[i].path : i \in DOMAIN Files} \cup {"missing.txt"}

\* what open(path) finds
FileAt(path) ==
    IF \E i \in DOMAIN Files : Files[i].path = path
    THEN Files[CHOOSE i \in DOMAIN Files : Files[i].path = path]
    ELSE [path |-> path, kind |-> "missing"]

CommandLines ==
    {<<>>, <<"-h">>, <<"report.txt", "--help">>, <<"-x">>, <<"report.txt", "roster.txt">>}
    \cup {<<p>> : p \in Paths}

\* ArgumentParser.parse_args: the help option wherever it stands, else
\* exactly one positional argument, the path
parse_args(arguments) ==
    IF \E i \in 1..Len(arguments) : arguments[i] \in {"-h", "--help"} THEN [outcome |-> "help"]
    ELSE IF Len(arguments) = 1 /\ At(arguments[1], 1) # "-"
         THEN [outcome |-> "parsed", path |-> arguments[1]]
         ELSE [outcome |-> "error"]

InitMain ==
    /\ argv \in CommandLines
    /\ exit_status = None
    /\ stdout = None
    /\ pc = "main"
    /\ text = ""
    /\ raw_date = ""
    /\ Unset
    /\ NoValuation /\ NoInvocations

\* what the statements of main outside the extractors leave alone
main_frame == <<lines, idx, meeting_date, participants_set, participants, current_speaker,
                action_items, item_line, key_decisions, decision_line, summary,
                date_vars, valuation_vars, invocations, argv>>

\* args = parser.parse_args()
ParseArgs ==
    /\ pc = "main"
    /\ parse_args(argv).outcome = "parsed"
    /\ pc' = "open"
    /\ UNCHANGED <<text, exit_status, stdout, main_frame>>

\* parse_args prints the help text and exits with status 0
PrintHelp ==
    /\ pc = "main"
    /\ parse_args(argv).outcome = "help"
    /\ stdout' = Some("usage")
    /\ exit_status' = Some(0)
    /\ pc' = "exit"
    /\ UNCHANGED <<text, main_frame>>

\* parse_args reports the error on stderr and exits with status 2
UsageError ==
    /\ pc = "main"
    /\ parse_args(argv).outcome = "error"
    /\ exit_status' = Some(2)
    /\ pc' = "exit"
    /\ UNCHANGED <<text, stdout, main_frame>>

\* open() or f.read() raises and nothing catches it: as ReadFails, but the
\* failure is caught and the text taken for empty
ReadFails_swallowed ==
    /\ pc = "open"
    /\ FileAt(parse_args(argv).path).kind # "text"
    /\ text' = ""
    /\ pc' = "read"
    /\ UNCHANGED <<exit_status, stdout, main_frame>>

\* with open(path, "r", encoding="utf-8") as f: text = f.read()
ReadFile ==
    /\ pc = "open"
    /\ FileAt(parse_args(argv).path).kind = "text"
    /\ text' = FileAt(parse_args(argv).path).content
    /\ pc' = "read"
    /\ UNCHANGED <<exit_status, stdout, main_frame>>

\* open() or f.read() raises (FileNotFoundError, IsADirectoryError,
\* UnicodeDecodeError): nothing catches it, the interpreter prints the
\* traceback on stderr and exits with status 1
ReadFails ==
    /\ pc = "open"
    /\ FileAt(parse_args(argv).path).kind # "text"
    /\ exit_status' = Some(1)
    /\ pc' = "exit"
    /\ UNCHANGED <<text, stdout, main_frame>>

\* the dictionary process_transcript returns
result ==
    [meeting_date |-> meeting_date, participants |-> participants,
     action_items |-> action_items, key_decisions |-> key_decisions, summary |-> summary]

\* print(json.dumps(result, indent=2)); main returns and the process exits
\* with status 0.  stdout holds the value that is printed, not its JSON text.
PrintResult ==
    /\ pc = "done"
    /\ exit_status = None
    /\ stdout' = Some(result)
    /\ exit_status' = Some(0)
    /\ pc' = "exit"
    /\ UNCHANGED <<text, main_frame>>

NextMain ==
    \/ ParseArgs
    \/ PrintHelp
    \/ UsageError
    \/ ReadFile
    \/ ReadFails
    \/ Next
    \/ PrintResult

SpecMain == InitMain /\ [][NextMain]_vars

-----------------------------------------------------------------------------
(* Calls of process_transcript that run side by side, as threads of one      *)
(* process: every call has its own frame of local variables (the module has  *)
(* no global but the pattern tables, which are never assigned), and a step   *)
(* of a call is one statement or one iteration of a loop over the lines      *)

NumInvocations == 2

Documents ==
    { "Jane: Let's go\nI will stay",
      "I'll call",
      "Bob: We agree to meet on 3/14/25" }

\* the frame of a call that has read its text
NewFrame(txt) ==
    [text |-> txt, pc |-> "read", lines |-> <<>>, idx |-> 1, meeting_date |-> None,
     participants_set |-> {}, participants |-> <<>>, current_speaker |-> None,
     action_items |-> <<>>, key_decisions |-> <<>>, summary |-> ""]

InitConcurrent ==
    /\ invocations \in [1..NumInvocations -> {NewFrame(d) : d \in Documents}]
    /\ pc = "threads"
    /\ text = ""
    /\ raw_date = ""
    /\ Unset
    /\ NoValuation /\ NoCommand

\* what a step of a call leaves alone
invocation_frame == <<pipeline_vars, pc, date_vars, valuation_vars, main_vars>>

\* the speaker context call w reads: as speaker_context, were current_speaker
\* a global of the module that the first call's loop assigns
speaker_context_shared(w) == invocations[1].current_speaker

\* the speaker context call w reads: its own local current_speaker
speaker_context(w) == invocations[w].current_speaker

\* call w goes on with the frame f
Resume(w, f) ==
    /\ invocations' = [invocations EXCEPT ![w] = f]
    /\ UNCHANGED invocation_frame

\* lines = text.splitlines()
CallSplitText(w) ==
    LET f == invocations[w]
    IN  /\ f.pc = "read"
        /\ Resume(w, [f EXCEPT !.lines = SplitLines(f.text), !.pc = "extract_meeting_date"])

CallExtractMeetingDate(w) ==
    LET f == invocations[w]
    IN  /\ f.pc = "extract_meeting_date"
        /\ Resume(w, [f EXCEPT !.meeting_date = extract_meeting_date(f.text),
                               !.pc = "extract_participants",
                               !.idx = 1, !.participants_set = {}])

CallExtractParticipantsLine(w) ==
    LET f == invocations[w]
    IN  /\ f.pc = "extract_participants"
        /\ f.idx <= Len(f.lines)
        /\ Resume(w, [f EXCEPT !.participants_set = @ \cup line_participants(f.lines[f.idx]),
                               !.idx = @ + 1])

CallExtractParticipantsReturn(w) ==
    LET f == invocations[w]
    IN  /\ f.pc = "extract_participants"
        /\ f.idx > Len(f.lines)
        /\ Resume(w, [f EXCEPT !.participants = Sorted(f.participants_set),
                               !.pc = "extract_action_items",
                               !.idx = 1, !.current_speaker = None, !.action_items = <<>>])

CallExtractActionItemsLine(w) ==
    LET f == invocations[w]
    IN  /\ f.pc = "extract_action_items"
        /\ f.idx <= Len(f.lines)
        /\ LET line == f.lines[f.idx]
               speaker == speaker_of(line, speaker_context(w))
           IN  Resume(w, [f EXCEPT !.current_speaker = speaker,
                                   !.action_items = @ \o line_actions(content_of(line), speaker, 1),
                                   !.idx = @ + 1])

CallExtractActionItemsReturn(w) ==
    LET f == invocations[w]
    IN  /\ f.pc = "extract_action_items"
        /\ f.idx > Len(f.lines)
        /\ Resume(w, [f EXCEPT !.pc = "extract_decisions", !.idx = 1, !.key_decisions = <<>>])

CallExtractDecisionsLine(w) ==
    LET f == invocations[w]
    IN  /\ f.pc = "extract_decisions"
        /\ f.idx <= Len(f.lines)
        /\ Resume(w, [f EXCEPT !.key_decisions = @ \o line_decisions(content_of(f.lines[f.idx]), 1),
                               !.idx = @ + 1])

CallExtractDecisionsReturn(w) ==
    LET f == invocations[w]
    IN  /\ f.pc = "extract_decisions"
        /\ f.idx > Len(f.lines)
        /\ Resume(w, [f EXCEPT !.pc = "build_summary"])

CallBuildSummary(w) ==
    LET f == invocations[w]
    IN  /\ f.pc = "build_summary"
        /\ Resume(w, [f EXCEPT !.summary = build_summary(f.action_items, f.key_decisions),
                               !.pc = "done"])

NextConcurrent ==
    \E w \in 1..NumInvocations :
        \/ CallSplitText(w)
        \/ CallExtractMeetingDate(w)
        \/ CallExtractParticipantsLine(w)
        \/ CallExtractParticipantsReturn(w)
        \/ CallExtractActionItemsLine(w)
        \/ CallExtractActionItemsReturn(w)
        \/ CallExtractDecisionsLine(w)
        \/ CallExtractDecisionsReturn(w)
        \/ CallBuildSummary(w)

SpecConcurrent == InitConcurrent /\ [][NextConcurrent]_vars

----------------------------------------------------------------------------
(* Vocabulary of the properties                                            *)

Range(f) == {f[k] : k \in DOMAIN f}

ParticipantsDone == pc \in {"extract_action_items", "extract_decisions", "build_summary", "done"}
ActionItemsDone == pc \in {"extract_decisions", "build_summary", "done"}
Done == pc = "done"

\* the action items (decisions) appended on line k
ItemsOfLine(k) == {j \in 1..Len(action_items) : item_line[j] = k}
DecisionsOfLine(k) == {j \in 1..Len(key_decisions) : decision_line[j] = k}

IsSpeakerLine(line) == Match(SPEAKER_RE, FALSE, line).ok

\* the action (decision) patterns that match a content
ActionMatches(content) ==
    {n \in 1..Len(ACTION_PATTERNS) : Search(ACTION_PATTERNS[n], TRUE, content).ok}
DecisionMatches(content) ==
    {n \in 1..Len(DECISION_PATTERNS) : Search(DECISION_PATTERNS[n], TRUE, content).ok}

Min(S) == CHOOSE x \in S : \A y \in S : x <= y

\* what pattern n captures in a content it matches, cleaned
ActionCapture(content, n) ==
    clean_task(Group(content, Search(ACTION_PATTERNS[n], TRUE, content), 1))

\* a line that is the label followed by a text X: X, or None
LabelledText(line, label) ==
    IF Len(line) > Len(label) /\ SubSeq(line, 1, Len(label)) = label
    THEN Some(SubSeq(line, Len(label) + 1, Len(line)))
    ELSE None

\* the content has I as a word of its own: so begin I, I'll, I will, I'm going
HasFirstPersonWord(content) == Search(<<WB, Lit("I"), WB>>, TRUE, content).ok

\* the speaker of the last speaker-labelled line among lines 1..k
RECURSIVE LastSpeaker(_)
LastSpeaker(k) ==
    IF k = 0 THEN None
    ELSE LET m == Match(SPEAKER_RE, FALSE, lines[k])
         IN  IF m.ok THEN Some(Strip(Group(lines[k], m, 1))) ELSE LastSpeaker(k - 1)

IsBlank(s) == Strip(s) = ""

ScenarioA == "Jane: I'll send the report by Friday, March 14, 2025."
ScenarioB == <<"Participants: Alice, Bob and Carol", "We decided to ship the update next week.">>

----------------------------------------------------------------------------
(* Properties                                                              *)

\* C1: every trimmed, non-empty fragment of the list of a roster line
\* "Participants: <list>" (split on commas, semicolons and the word "and") is
\* a participant, and Scenario B yields exactly <<"Alice", "Bob", "Carol">>.
C1_RosterNamesAreParticipants ==
    ParticipantsDone =>
        /\ \A k \in 1..Len(lines) :
              LET list == LabelledText(lines[k], "Participants:")
              IN  list # None =>
                     LET names == SplitFrom(list[1], 1)
                     IN  ({Strip(names[n]) : n \in 1..Len(names)} \ {""}) \subseteq Range(participants)
        /\ lines = ScenarioB => participants = <<"Alice", "Bob", "Carol">>

\* C2: a line "Action: X" whose X cleans to a non-empty task and that matches
\* no higher-priority pattern yields exactly one action item, with task the
\* cleaned X.
C2_ActionLabelYieldsItem ==
    ActionItemsDone =>
        \A k \in 1..Len(lines) :
            LET x == LabelledText(lines[k], "Action: ")
            IN  (/\ x # None
                 /\ clean_task(x[1]) # ""
                 /\ ActionMatches(lines[k]) = {Len(ACTION_PATTERNS)})
                => /\ Cardinality(ItemsOfLine(k)) = 1
                   /\ \A j \in ItemsOfLine(k) : action_items[j].task = clean_task(x[1])

\* C3: a line "Decision: X" whose X cleans to a non-empty string and that
\* matches no higher-priority decision pattern yields exactly one decision,
\* the cleaned X.
C3_DecisionLabelYieldsDecision ==
    Done =>
        \A k \in 1..Len(lines) :
            LET x == LabelledText(lines[k], "Decision: ")
            IN  (/\ x # None
                 /\ clean_task(x[1]) # ""
                 /\ DecisionMatches(lines[k]) = {2})
                => /\ Cardinality(DecisionsOfLine(k)) = 1
                   /\ \A j \in DecisionsOfLine(k) : key_decisions[j] = clean_task(x[1])

\* C4 as claimed: Scenario A yields exactly one action item, with task "send
\* the report", assignee Jane and due date 2025-03-14.
C4_ScenarioA_AsClaimed ==
    (ActionItemsDone /\ lines = <<ScenarioA>>) =>
        action_items = << [assignee |-> Some("Jane"), task |-> "send the report",
                           due_date |-> Some("2025-03-14")] >>

\* C4 as amended: Scenario A yields exactly one action item, with assignee
\* Jane, task the whole captured clause "send the report by Friday, March 14,
\* 2025" and no due date.
C4_ScenarioA ==
    (ActionItemsDone /\ lines = <<ScenarioA>>) =>
        action_items = << [assignee |-> Some("Jane"),
                           task |-> "send the report by Friday, March 14, 2025",
                           due_date |-> None] >>

C4_Witness == Done /\ lines = <<ScenarioA>> /\ Len(action_items) = 1

\* C5 as claimed: a line whose content matches two or more action patterns
\* yields exactly one action item, the one captured by the highest-priority
\* matching pattern.
C5_OneItemOfFirstPattern_AsClaimed ==
    ActionItemsDone =>
        \A k \in 1..Len(lines) :
            LET content == content_of(lines[k])
                ms == ActionMatches(content)
            IN  Cardinality(ms) >= 2 =>
                   /\ Cardinality(ItemsOfLine(k)) = 1
                   /\ \A j \in ItemsOfLine(k) : action_items[j].task = ActionCapture(content, Min(ms))

\* C5 as amended: a line whose content matches two or more action patterns
\* yields at most one action item; when the capture of the highest-priority
\* matching pattern cleans to a non-empty task, it yields exactly one, with
\* that task.
C5_OneItemOfFirstPattern ==
    ActionItemsDone =>
        \A k \in 1..Len(lines) :
            LET content == content_of(lines[k])
                ms == ActionMatches(content)
            IN  Cardinality(ms) >= 2 =>
                   /\ Cardinality(ItemsOfLine(k)) <= 1
                   /\ ActionCapture(content, Min(ms)) # "" =>
                         /\ Cardinality(ItemsOfLine(k)) = 1
                         /\ \A j \in ItemsOfLine(k) :
                               action_items[j].task = ActionCapture(content, Min(ms))

\* a later phrase of higher priority wins over an earlier one of lower priority
C5_Witness ==
    /\ Done
    /\ \E k \in 1..Len(lines) :
          LET content == content_of(lines[k])
              ms == ActionMatches(content)
          IN  /\ Cardinality(ms) >= 2
              /\ \E n \in ms \ {Min(ms)} :
                    Search(ACTION_PATTERNS[n], TRUE, content).start
                       < Search(ACTION_PATTERNS[Min(ms)], TRUE, content).start
              /\ \E j \in ItemsOfLine(k) :
                    action_items[j].task = ActionCapture(content, Min(ms))

\* C6: when the capture of the first action pattern that matches a line cleans
\* to the empty string, the line yields no action item at all.
C6_EmptyCaptureEndsLine ==
    ActionItemsDone =>
        \A k \in 1..Len(lines) :
            LET content == content_of(lines[k])
                ms == ActionMatches(content)
            IN  (ms # {} /\ ActionCapture(content, Min(ms)) = "") => ItemsOfLine(k) = {}

\* C7: an action item of a line whose content matches "You should X" has no
\* assignee.
C7_YouShouldHasNoAssignee ==
    \A j \in 1..Len(action_items) :
        Search(ACTION_PATTERNS[4], TRUE, content_of(lines[item_line[j]])).ok
            => action_items[j].assignee = None

\* C8: an action item of a line whose content has a first-person marker is
\* assigned to the speaker of the most recent speaker-labelled line at or
\* before its line, and to nobody when there is none.
C8_FirstPersonAssignee ==
    \A j \in 1..Len(action_items) :
        HasFirstPersonWord(content_of(lines[item_line[j]]))
            => action_items[j].assignee = LastSpeaker(item_line[j])

\* an unlabelled first-person line takes the speaker of an earlier line
C8_Witness ==
    \E j \in 1..Len(action_items) :
        /\ HasFirstPersonWord(content_of(lines[item_line[j]]))
        /\ ~IsSpeakerLine(lines[item_line[j]])
        /\ action_items[j].assignee # None
        /\ action_items[j].assignee = LastSpeaker(item_line[j] - 1)

\* C9: an action item of a line whose content has no first-person marker as a
\* word or phrase has no assignee.
C9_NoMarkerNoAssignee ==
    \A j \in 1..Len(action_items) :
        ~HasFirstPersonWord(content_of(lines[item_line[j]]))
            => action_items[j].assignee = None

\* C10: no task of action_items and no string of key_decisions is empty or
\* only whitespace.
C10_NoBlankItem ==
    /\ \A j \in 1..Len(action_items) : ~IsBlank(action_items[j].task)
    /\ \A j \in 1..Len(key_decisions) : ~IsBlank(key_decisions[j])

\* a capture that cleans to nothing was met, and items and decisions exist
C10_Witness ==
    /\ Done
    /\ action_items # <<>>
    /\ key_decisions # <<>>
    /\ \E k \in 1..Len(lines) :
          \E n \in ActionMatches(content_of(lines[k])) :
              ActionCapture(content_of(lines[k]), n) = ""

----------------------------------------------------------------------------
(* Vocabulary of the properties on captures, order and dates                *)

\* the punctuation characters of ASCII (RQuote standing for U+2019)
PunctCh == Chars("!\"#$%&'()*+,-./:;<=>?@[\\]^_{|}~")

\* s has nothing but whitespace and punctuation
OnlyPunctuation(s) == \A i \in 1..Len(s) : At(s, i) \in SpaceCh \cup PunctCh

\* what action (decision) pattern n captures in a content it matches, as matched
RawActionCapture(content, n) == Group(content, Search(ACTION_PATTERNS[n], TRUE, content), 1)
RawDecisionCapture(content, n) ==
    Group(content, Search(DECISION_PATTERNS[n], TRUE, content), 1)

\* C11: when the text an action pattern captures on a line has nothing but
\* whitespace and punctuation, the line yields no action item made of that
\* capture; and the same for the decision patterns and key_decisions.
C11_PunctuationCaptureDropped ==
    /\ ActionItemsDone =>
          \A k \in 1..Len(lines) :
              LET content == content_of(lines[k])
              IN  \A n \in ActionMatches(content) :
                      OnlyPunctuation(RawActionCapture(content, n)) =>
                          \A j \in ItemsOfLine(k) :
                              action_items[j].task # clean_task(RawActionCapture(content, n))
    /\ Done =>
          \A k \in 1..Len(lines) :
              LET content == content_of(lines[k])
              IN  \A n \in DecisionMatches(content) :
                      OnlyPunctuation(RawDecisionCapture(content, n)) =>
                          \A j \in DecisionsOfLine(k) :
                              key_decisions[j] # clean_task(RawDecisionCapture(content, n))

\* C12: participants is in strictly ascending order of Python's string
\* comparison, so no name is in it twice, whatever lines named its members.
C12_ParticipantsSortedUnique ==
    ParticipantsDone =>
        /\ \A i, j \in 1..Len(participants) :
              i < j => StrLess(participants[i], participants[j])
        /\ \A i, j \in 1..Len(participants) :
              i # j => participants[i] # participants[j]

\* a name given by a roster line is given again by a later speaker label, and
\* the names were not met in sorted order
C12_Witness ==
    /\ ParticipantsDone
    /\ Len(participants) = 2
    /\ \E k1, k2 \in 1..Len(lines) :
          /\ k1 < k2
          /\ ~IsSpeakerLine(lines[k1])
          /\ IsSpeakerLine(lines[k2])
          /\ line_participants(lines[k2]) \subseteq line_participants(lines[k1])
          /\ line_participants(lines[k1]) = Range(participants)
          /\ Strip(SplitFrom(Group(lines[k1], Search(PARTICIPANTS_RE, TRUE, lines[k1]), 1), 1)[1])
                = participants[2]

\* C13: the action items are in the order of the lines that appended them,
\* at most one to a line, each the item its line yields; the same holds of the
\* decisions; so neither list is longer than the list of lines.
C13_LineOrderOnePerLine ==
    /\ Len(item_line) = Len(action_items)
    /\ Len(decision_line) = Len(key_decisions)
    /\ \A i, j \in 1..Len(action_items) : i < j => item_line[i] < item_line[j]
    /\ \A i, j \in 1..Len(key_decisions) : i < j => decision_line[i] < decision_line[j]
    /\ \A j \in 1..Len(action_items) :
          /\ item_line[j] \in 1..Len(lines)
          /\ <<action_items[j]>> = line_actions(content_of(lines[item_line[j]]),
                                                LastSpeaker(item_line[j]), 1)
    /\ \A j \in 1..Len(key_decisions) :
          /\ decision_line[j] \in 1..Len(lines)
          /\ <<key_decisions[j]>> = line_decisions(content_of(lines[decision_line[j]]), 1)
    /\ Len(action_items) <= Len(lines)
    /\ Len(key_decisions) <= Len(lines)

\* two decisions of two lines, one of which matches two decision patterns,
\* and an action item
C13_Witness ==
    /\ Done
    /\ Len(key_decisions) = 2
    /\ action_items # <<>>
    /\ \E k \in 1..Len(lines) : Cardinality(DecisionMatches(content_of(lines[k]))) >= 2

MeetingDateDone ==
    pc \in {"extract_participants", "extract_action_items", "extract_decisions",
            "build_summary", "done"}

\* the date patterns that match somewhere in a text, and the first match of one
DateMatches(txt) ==
    {n \in 1..Len(DATE_PATTERNS) : Search(DATE_PATTERNS[n], FALSE, txt).ok}
FirstDateMatch(txt, n) == Search(DATE_PATTERNS[n], FALSE, txt)
FirstDateToken(txt, n) == Group(txt, FirstDateMatch(txt, n), 1)

\* the first of the date patterns, in the order ISO, slash, spelled month, that
\* matches somewhere in a text (n, 0 for none) and its first match there (m)
FirstDatePattern(txt) ==
    LET m1 == FirstDateMatch(txt, 1)
    IN  IF m1.ok THEN [n |-> 1, m |-> m1]
        ELSE LET m2 == FirstDateMatch(txt, 2)
             IN  IF m2.ok THEN [n |-> 2, m |-> m2]
                 ELSE LET m3 == FirstDateMatch(txt, 3)
                      IN  IF m3.ok THEN [n |-> 3, m |-> m3] ELSE [n |-> 0, m |-> m3]

\* C14: meeting_date is absent exactly when none of the three date patterns
\* matches in the text; otherwise it is the normalization of the first match
\* of the first pattern, in the order ISO, slash, spelled month, that matches
\* anywhere in the text, wherever the matches of the other patterns are.
C14_MeetingDateByPatternPriority ==
    MeetingDateDone =>
        LET first == FirstDatePattern(text)
        IN  /\ meeting_date = None <=> first.n = 0
            /\ first.n # 0 => meeting_date = Some(normalize_date(Group(text, first.m, 1)))

\* an ISO date is taken though a slash date comes before it in the text
C14_Witness ==
    /\ MeetingDateDone
    /\ {1, 2} \subseteq DateMatches(text)
    /\ FirstDateMatch(text, 2).start < FirstDateMatch(text, 1).start
    /\ meeting_date = Some(FirstDateToken(text, 1))
    /\ meeting_date # Some(normalize_date(FirstDateToken(text, 2)))

\* the form YYYY-MM-DD of a calendar date
Canonical(dt) == Pad4(dt.y) \o "-" \o Pad2(dt.m) \o "-" \o Pad2(dt.d)

NormalizeReturned == pc \in {"normalize_again", "normalized"}

\* C15: _normalize_date maps a valid calendar date written in any of the five
\* formats to that same date in the form YYYY-MM-DD, and normalizing its
\* result once more returns the result unchanged.
C15_NormalizeCanonicalIdempotent ==
    /\ NormalizeReturned =>
          \A f \in 1..5, dt \in CalendarDates, pad \in BOOLEAN :
              ((f = 3 => HasTwoDigitYear(dt)) /\ raw_date = WriteDate(f, dt, pad))
                  => normalized = Some(Canonical(dt))
    /\ pc = "normalized" => renormalized = normalized

\* no format of the five parses the trimmed token
Unparseable(tok) == \A k \in 1..Len(DATE_FORMATS) : ~Strptime(Strip(tok), DATE_FORMATS[k]).ok

\* the date-shaped token after the first due-date preposition of a content
DueMatch(content) == Search(DUE_DATE_RE, TRUE, content)
DueToken(content) == Group(content, DueMatch(content), 1)

\* C16: when the token extract_meeting_date takes from the text parses under
\* none of the five formats, meeting_date is that token, trimmed and otherwise
\* unchanged; and when the token after the due-date preposition of an action
\* item's line parses under none, the item's due_date is that token, trimmed
\* and otherwise unchanged.
C16_UnparsedDatePassedThrough ==
    /\ MeetingDateDone =>
          LET first == FirstDatePattern(text)
              tok == Group(text, first.m, 1)
          IN  (first.n # 0 /\ Unparseable(tok)) => meeting_date = Some(Strip(tok))
    /\ \A j \in 1..Len(action_items) :
          LET content == content_of(lines[item_line[j]])
              m == DueMatch(content)
              tok == Group(content, m, 1)
          IN  (m.ok /\ Unparseable(tok)) => action_items[j].due_date = Some(Strip(tok))

\* an impossible ISO date became the meeting date and a month and day without
\* a year, or an impossible date, became a due date
C16_Witness ==
    /\ Done
    /\ DateMatches(text) # {}
    /\ Unparseable(FirstDateToken(text, Min(DateMatches(text))))
    /\ meeting_date # None
    /\ \E j \in 1..Len(action_items) :
          LET content == content_of(lines[item_line[j]])
          IN  /\ DueMatch(content).ok
              /\ Unparseable(DueToken(content))
              /\ action_items[j].due_date = Some(DueToken(content))

\* the action pattern that made item j: the first that matches its line
PatternOfItem(j) == Min(ActionMatches(content_of(lines[item_line[j]])))

\* C17: the due_date of an action item is given by the content of its line
\* alone, whichever action pattern made the item: the normalization of the
\* token of the first clause "by / before / due / on <date-shaped token>" of
\* the content, and absent exactly when the content has no such clause.
C17_DueDateFromContent ==
    \A j \in 1..Len(action_items) :
        LET content == content_of(lines[item_line[j]])
            m == DueMatch(content)
        IN  /\ action_items[j].due_date = None <=> ~m.ok
            /\ m.ok => action_items[j].due_date = Some(normalize_date(Group(content, m, 1)))

\* items of two different action patterns have due dates, one of them from a
\* clause that stands before the action phrase, outside the captured task
C17_Witness ==
    /\ Done
    /\ \E j1, j2 \in 1..Len(action_items) :
          /\ PatternOfItem(j1) # PatternOfItem(j2)
          /\ action_items[j1].due_date # None
          /\ action_items[j2].due_date # None
          /\ LET content == content_of(lines[item_line[j1]])
             IN  DueMatch(content).start
                    < Search(ACTION_PATTERNS[PatternOfItem(j1)], TRUE, content).start

DecisionsDone == pc \in {"build_summary", "done"}

\* what decision pattern n captures in a content it matches, cleaned
DecisionCapture(content, n) == clean_task(RawDecisionCapture(content, n))

\* C18: a line whose content matches a decision pattern yields what the first
\* matching pattern, in the order We decided (to) / Decision: / Agreed to /
\* We agree to, captures, cleaned by _clean_task, as its one decision, and no
\* decision at all when that cleaned capture is empty; and Scenario B yields
\* key_decisions == ["ship the update next week"].
C18_FirstDecisionPatternOnly ==
    DecisionsDone =>
        /\ \A k \in 1..Len(lines) :
              LET content == content_of(lines[k])
                  ms == DecisionMatches(content)
              IN  ms # {} =>
                     IF DecisionCapture(content, Min(ms)) = ""
                     THEN DecisionsOfLine(k) = {}
                     ELSE /\ Cardinality(DecisionsOfLine(k)) = 1
                          /\ \A j \in DecisionsOfLine(k) :
                                key_decisions[j] = DecisionCapture(content, Min(ms))
        /\ lines = ScenarioB => key_decisions = <<"ship the update next week">>

\* one line whose first matching pattern captures nothing though a later
\* pattern captures a text, and one line whose decision is of the first
\* pattern though a later pattern matches before it in the line
C18_Witness ==
    /\ Done
    /\ \E k \in 1..Len(lines) :
          LET content == content_of(lines[k])
              ms == DecisionMatches(content)
          IN  /\ Cardinality(ms) >= 2
              /\ DecisionCapture(content, Min(ms)) = ""
              /\ \E n \in ms : DecisionCapture(content, n) # ""
              /\ DecisionsOfLine(k) = {}
    /\ \E k \in 1..Len(lines) :
          LET content == content_of(lines[k])
              ms == DecisionMatches(content)
          IN  /\ Cardinality(ms) >= 2
              /\ \E n \in ms \ {Min(ms)} :
                    Search(DECISION_PATTERNS[n], TRUE, content).start
                       < Search(DECISION_PATTERNS[Min(ms)], TRUE, content).start
              /\ \E j \in DecisionsOfLine(k) :
                    key_decisions[j] = DecisionCapture(content, Min(ms))

\* the positions at which sub occurs in s
Occurrences(s, sub) ==
    {i \in 1..(Len(s) - Len(sub) + 1) : SubSeq(s, i, i + Len(sub) - 1) = sub}

TrailingNote == "Additional follow-ups may be noted in the transcript."

\* the fragment on the decisions: their number and the first of them
DecisionFragment ==
    "Key decisions were made on " \o ToStr(Len(key_decisions))
    \o " topic(s), including: " \o key_decisions[1]

\* the fragment on the action items: the assignee and the task of the first
ActionFragment ==
    LET who == IF action_items[1].assignee = None THEN "the team"
               ELSE action_items[1].assignee[1]
    IN  "Action items were assigned, starting with " \o who \o " to " \o action_items[1].task

\* C19: the summary has the trailing note exactly when one of action_items
\* and key_decisions is empty and the other is not; when neither is empty the
\* summary has the decision fragment, after it the action fragment, and no
\* trailing note.
C19_TrailingNoteIffOneFragment ==
    Done =>
        /\ (Occurrences(summary, TrailingNote) # {})
              <=> ((action_items = <<>>) # (key_decisions = <<>>))
        /\ (action_items # <<>> /\ key_decisions # <<>>) =>
              /\ \E i \in Occurrences(summary, DecisionFragment) :
                    \E j \in Occurrences(summary, ActionFragment) :
                        i + Len(DecisionFragment) <= j
              /\ Occurrences(summary, TrailingNote) = {}

\* Scenario D: one decision and one action item
C19_Witness ==
    /\ Done
    /\ Len(action_items) = 1
    /\ Len(key_decisions) = 1
    /\ Occurrences(summary, DecisionFragment) # {}
    /\ Occurrences(summary, ActionFragment) # {}

\* C20: when there is an action item or a decision, the summary is put
\* together from fixed words and the two lists only: first the decision
\* fragment, if there is a decision, with the number of decisions and the
\* first decision; then the action fragment, if there is an action item, with
\* the first item's assignee, or "the team" for none, and its task; nothing
\* else of the lists or of the text is in it.
C20_SummaryFromFirstEntries ==
    (Done /\ (action_items # <<>> \/ key_decisions # <<>>)) =>
        summary = IF action_items # <<>> /\ key_decisions # <<>>
                  THEN DecisionFragment \o ". " \o ActionFragment \o "."
                  ELSE IF key_decisions # <<>>
                  THEN DecisionFragment \o ". " \o TrailingNote
                  ELSE ActionFragment \o ". " \o TrailingNote

\* two different action items, the first without assignee, and a decision
C20_Witness ==
    /\ Done
    /\ Len(action_items) = 2
    /\ action_items[1].assignee = None
    /\ action_items[2].assignee # None
    /\ action_items[1].task # action_items[2].task
    /\ key_decisions # <<>>
    /\ Occurrences(summary, "the team to " \o action_items[1].task) # {}

----------------------------------------------------------------------------
(* Properties of the summary text, of plain prose and of speaker labels     *)

\* the summary without the trailing note, when it has one
SummaryText ==
    IF EndsWith(summary, FOLLOW_UP_NOTE)
    THEN SubSeq(summary, 1, Len(summary) - Len(FOLLOW_UP_NOTE))
    ELSE summary

\* s ends with one period, not with two
EndsWithOnePeriod(s) == EndsWith(s, ".") /\ ~EndsWith(s, "..")

\* C21: in every result the summary ends with exactly one period, and so does
\* the summary text that stands before the trailing note.
C21_SummaryEndsWithOnePeriod ==
    Done => EndsWithOnePeriod(summary) /\ EndsWithOnePeriod(SummaryText)

\* a summary of two fragments, ending in the task of the first action item
C21_Witness ==
    /\ Done
    /\ action_items # <<>>
    /\ key_decisions # <<>>
    /\ SummaryText = summary
    /\ EndsWith(summary, action_items[1].task \o ".")

\* the fixed sentence for a transcript without structure
NoStructureSentence ==
    "No explicit action items or decisions were detected in the transcript. "
    \o "The meeting appears to be informational or exploratory. "
    \o "Review the transcript for any implied follow-ups."

\* plain prose: no line has a speaker label, a roster or an action or decision
\* phrase, and the text has no date-shaped token
PlainProse ==
    /\ \A k \in 1..Len(lines) :
          /\ ~IsSpeakerLine(lines[k])
          /\ ~Search(PARTICIPANTS_RE, TRUE, lines[k]).ok
          /\ ActionMatches(lines[k]) = {}
          /\ DecisionMatches(lines[k]) = {}
    /\ FirstDatePattern(text).n = 0

\* C22 (Scenario C): for a transcript of plain prose process_transcript runs
\* to its end and returns no meeting date, no participants, no action items,
\* no decisions and the fixed sentence as summary.
C22_PlainProseYieldsFallback ==
    (Done /\ PlainProse) =>
        /\ meeting_date = None
        /\ participants = <<>>
        /\ action_items = <<>>
        /\ key_decisions = <<>>
        /\ summary = NoStructureSentence

\* a transcript of two lines of prose was processed
C22_Witness ==
    /\ Done
    /\ Len(lines) = 2
    /\ lines[1] # lines[2]
    /\ \A k \in 1..Len(lines) : ~Search(<<Lit(":")>>, FALSE, lines[k]).ok
    /\ PlainProse
    /\ summary = NoStructureSentence

\* the characters of a name: letters, space, period, apostrophe, hyphen
NameCh == UpperCh \cup LowerCh \cup {" ", ".", "'", "-"}

\* a capitalized name of 1 to 50 name characters
IsName(s) ==
    /\ Len(s) \in 1..50
    /\ At(s, 1) \in UpperCh
    /\ \A i \in 1..Len(s) : At(s, i) \in NameCh

\* after leading whitespace the line is a name, a colon and a non-empty rest
HasSpeakerShape(line) ==
    LET t == LStrip(line)
    IN  \E i \in 2..(Len(t) - 1) : At(t, i) = ":" /\ IsName(SubSeq(t, 1, i - 1))

\* C25: a line is taken as speaker-labelled exactly when, after leading
\* whitespace, it is a capitalized name of 1 to 50 letters, spaces, periods,
\* apostrophes and hyphens, a colon and a non-empty rest: so "A: hello" is,
\* and a name of more than 50 characters or with a digit or underscore is not.
C25_SpeakerLabelShape ==
    \A k \in 1..Len(lines) : IsSpeakerLine(lines[k]) <=> HasSpeakerShape(lines[k])

\* a due-date preposition as a word, followed by whitespace
DUE_PREPOSITION ==
    <<WB, Alt(<< <<Lit("by")>>, <<Lit("before")>>, <<Lit("due")>>, <<Lit("on")>> >>),
      Plus(ClsS)>>

Weekdays ==
    << <<Lit("monday")>>, <<Lit("tuesday")>>, <<Lit("wednesday")>>, <<Lit("thursday")>>,
       <<Lit("friday")>>, <<Lit("saturday")>>, <<Lit("sunday")>> >>

\* a due clause with a weekday before the date: preposition, weekday, comma,
\* then a date of one of the three shapes of DUE_DATE_RE (group 1: the token
\* from the weekday on)
WEEKDAY_DUE_CLAUSE ==
    DUE_PREPOSITION
    \o <<Open(1), Alt(Weekdays), Lit(","), Plus(ClsS),
         Alt(<< <<Plus(ClsAlpha), Plus(ClsS), Rep(ClsD, 1, 2),
                  Opt(<<Lit(","), Star(ClsS), Rep(ClsD, 4, 4)>>)>>,
                <<Rep(ClsD, 1, 2), Lit("/"), Rep(ClsD, 1, 2), Lit("/"), Rep(ClsD, 2, 4)>>,
                <<Rep(ClsD, 4, 4), Lit("-"), Rep(ClsD, 2, 2), Lit("-"), Rep(ClsD, 2, 2)>> >>),
         Close(1), WB>>

\* the places of a content where a due-date preposition stands
PrepositionsIn(content) ==
    {i \in 1..Len(content) : MatchAt(DUE_PREPOSITION, TRUE, content, i, NoGroups).ok}

C27_AssigneeIsParticipant ==
    Done =>
        /\ \A j \in 1..Len(action_items) :
              action_items[j].assignee # None
                  => action_items[j].assignee[1] \in Range(participants)
        /\ \A k \in 1..Len(lines) :
              IsSpeakerLine(lines[k])
                  => speaker_of(lines[k], None)[1] \in Range(participants)

\* an item of an unlabelled line took the speaker of an earlier line as its
\* assignee
C27_Witness ==
    /\ Done
    /\ \E j \in 1..Len(action_items) :
          /\ action_items[j].assignee # None
          /\ ~IsSpeakerLine(lines[item_line[j]])
          /\ Len(participants) > 0

\* the words that label a line of minutes rather than name a person
LabelWords == {"Action", "Decision", "Participants"}

\* the label words that begin a line of the transcript, each before a colon
LabelsUsed ==
    {w \in LabelWords : \E k \in 1..Len(lines) : LabelledText(lines[k], w \o ":") # None}

\* C28: a line that begins with a label word ("Action: X", "Decision: X",
\* "Participants: ...") adds no entry for the label word to participants and
\* does not change the speaker context: no label word of the transcript is a
\* participant or an assignee.
C28_LabelWordsAreNotSpeakers ==
    Done =>
        \A w \in LabelsUsed :
            /\ w \notin Range(participants)
            /\ \A j \in 1..Len(action_items) : action_items[j].assignee # Some(w)

HasChar(s, set) == \E i \in 1..Len(s) : At(s, i) \in set

\* a match whose capture runs up to the first period or line feed after the
\* trigger phrase, or to the end of the content
StopsAtPeriod(content, m) ==
    /\ ~HasChar(Group(content, m, 1), {".", "\n"})
    /\ \/ m.g[1][2] = Len(content) + 1
       \/ At(content, m.g[1][2]) \in {".", "\n"}

\* C29: no task of action_items and no string of key_decisions contains a
\* period or a line break; each is the cleaned capture of a pattern of its
\* line, and that capture stops at the first period after the trigger phrase.
C29_NoPeriodInItems ==
    /\ \A j \in 1..Len(action_items) :
          LET content == content_of(lines[item_line[j]])
          IN  /\ ~HasChar(action_items[j].task, {"."} \cup LineBreakCh)
              /\ \E n \in ActionMatches(content) :
                    LET m == Search(ACTION_PATTERNS[n], TRUE, content)
                    IN  /\ action_items[j].task = clean_task(Group(content, m, 1))
                        /\ StopsAtPeriod(content, m)
    /\ \A j \in 1..Len(key_decisions) :
          LET content == content_of(lines[decision_line[j]])
          IN  /\ ~HasChar(key_decisions[j], {"."} \cup LineBreakCh)
              /\ \E n \in DecisionMatches(content) :
                    LET m == Search(DECISION_PATTERNS[n], TRUE, content)
                    IN  /\ key_decisions[j] = clean_task(Group(content, m, 1))
                        /\ StopsAtPeriod(content, m)

\* an item and a decision made of lines that go on after a period
C29_Witness ==
    /\ Done
    /\ \E j \in 1..Len(action_items) :
          /\ lines[item_line[j]] = "Cy: I'll go. Bye"
          /\ action_items[j].task = "go"
    /\ \E j \in 1..Len(key_decisions) :
          /\ lines[decision_line[j]] = "Agreed to wait. We left"
          /\ key_decisions[j] = "wait"

\* the multiples of main are set, and the swap is past
MultiplesDone == pc \in {"valuation_range", "report"}

\* the spread of the base range of a niche
BaseSpread(niche) == IF niche \in {"finance", "education"} THEN 18 ELSE 12

\* C30: for every niche and all non-negative views, subscribers and age the
\* final multiples satisfy 12 <= low_mult < high_mult <= 60 and differ by the
\* base spread of the niche (12, or 18 for finance and education); the total
\* adjustment is within -4..4, and neither the clamp nor the swap changes a
\* value: the multiples are the base multiples plus the total adjustment.
C30_MultiplesKeepBaseSpread ==
    MultiplesDone =>
        /\ 12 <= valuation.low_mult
        /\ valuation.low_mult < valuation.high_mult
        /\ valuation.high_mult <= 60
        /\ valuation.high_mult - valuation.low_mult = BaseSpread(args.niche)
        /\ valuation.adj_total \in -4..4
        /\ valuation.low_mult = base_multiple_range(args.niche).low + valuation.adj_total
        /\ valuation.high_mult = base_multiple_range(args.niche).high + valuation.adj_total

\* a standard niche with both adjustments at their lowest: the multiples are
\* the nearest to the floor of the clamp that they get
C30_Witness ==
    /\ pc = "report"
    /\ args.niche = "tech"
    /\ args.subscribers = 0
    /\ args.age_years = 0
    /\ valuation.adj_total = -4
    /\ valuation.low_mult = 20
    /\ valuation.high_mult = 32

\* the command line names a path, and reading the file at that path fails
ReadFailure ==
    /\ parse_args(argv).outcome = "parsed"
    /\ FileAt(parse_args(argv).path).kind # "text"

\* no extractor and no summary builder has run, no result exists
NothingRan == text = "" /\ Unset

Exited == pc = "exit"

\* C24 as claimed: when reading the file fails, no extractor and no summary
\* builder runs and nothing is printed, and the command exits non-zero; and
\* the command exits non-zero only when reading the file failed.
C24_ReadFailureIsFatal_AsClaimed ==
    /\ ReadFailure => NothingRan /\ stdout = None
    /\ (Exited /\ ReadFailure) => exit_status \notin {None, Some(0)}
    /\ (Exited /\ exit_status # Some(0)) => ReadFailure

\* C24 as amended: when reading the file fails, no extractor and no summary
\* builder runs and nothing is printed, and the command exits with status 1;
\* the command exits non-zero only when reading the file failed or, with
\* status 2, when the command line is not one path argument.
C24_ReadFailureIsFatal ==
    /\ ReadFailure => NothingRan /\ stdout = None
    /\ (Exited /\ ReadFailure) => exit_status = Some(1)
    /\ (Exited /\ exit_status # Some(0))
           => \/ ReadFailure /\ exit_status = Some(1)
              \/ parse_args(argv).outcome = "error" /\ exit_status = Some(2)

\* the command has exited on a file that is not UTF-8
C24_Witness ==
    /\ Exited
    /\ argv = <<"raw.bin">>
    /\ exit_status = Some(1)
    /\ stdout = None
    /\ NothingRan

\* the action items of the lines k.. of a document processed alone, the
\* speaker context before line k being cur
RECURSIVE ActionItemsAlone(_, _, _)
ActionItemsAlone(ls, k, cur) ==
    IF k > Len(ls) THEN <<>>
    ELSE LET speaker == speaker_of(ls[k], cur)
         IN  line_actions(content_of(ls[k]), speaker, 1) \o ActionItemsAlone(ls, k + 1, speaker)

RECURSIVE DecisionsAlone(_, _)
DecisionsAlone(ls, k) ==
    IF k > Len(ls) THEN <<>>
    ELSE line_decisions(content_of(ls[k]), 1) \o DecisionsAlone(ls, k + 1)

\* the result of processing a document alone, from a fresh context
ProcessedAlone(txt) ==
    LET ls == SplitLines(txt)
        items == ActionItemsAlone(ls, 1, None)
        decisions == DecisionsAlone(ls, 1)
    IN  [meeting_date |-> extract_meeting_date(txt),
         participants |-> Sorted(UNION {line_participants(ls[k]) : k \in 1..Len(ls)}),
         action_items |-> items,
         key_decisions |-> decisions,
         summary |-> build_summary(items, decisions)]

\* the result a call returns
ResultOf(f) ==
    [meeting_date |-> f.meeting_date, participants |-> f.participants,
     action_items |-> f.action_items, key_decisions |-> f.key_decisions,
     summary |-> f.summary]

\* the speaker names of the labelled lines of a document
SpeakersOf(txt) ==
    LET ls == SplitLines(txt)
    IN  {speaker_of(ls[k], None)[1] : k \in {n \in 1..Len(ls) : IsSpeakerLine(ls[n])}}

\* C23: when several documents are processed side by side, in any
\* interleaving of the line-by-line steps, the result of each call is the
\* result of processing its document alone, and every assignee is a speaker
\* name of the same document.
C23_ConcurrentEqualsAlone ==
    \A w \in DOMAIN invocations :
        LET f == invocations[w]
        IN  /\ f.pc = "done" => ResultOf(f) = ProcessedAlone(f.text)
            /\ \A j \in 1..Len(f.action_items) :
                  f.action_items[j].assignee # None
                      => f.action_items[j].assignee[1] \in SpeakersOf(f.text)

\* two calls are inside the loop of extract_action_items at once: the first
\* carries the speaker Jane, the second has made an item of a first-person
\* line of a document without speakers
C23_Witness ==
    /\ DOMAIN invocations # {}
    /\ invocations[1].pc = "extract_action_items"
    /\ invocations[1].idx = 2
    /\ invocations[1].current_speaker = Some("Jane")
    /\ invocations[2].pc = "extract_action_items"
    /\ invocations[2].text = "I'll call"
    /\ invocations[2].idx = 2
    /\ invocations[2].action_items = <<[assignee |-> None, task |-> "call", due_date |-> None]>>

====
